---- MODULE Spec2Model ----
(***************************************************************************)
(* Model of the embedded-bacnet wire codec: the read and write cursors     *)
(* (common/io.rs), the tag codec (common/tag.rs), the application-PDU      *)
(* dispatch (application_protocol/application_pdu.rs), the                 *)
(* ReadPropertyMultiple and ReadRange service codecs and the link-layer    *)
(* framing (network_protocol/data_link.rs).                                *)
(*                                                                         *)
(* Bytes are naturals 0..255, byte regions are sequences of bytes (offset  *)
(* k of a region is element k+1 of the sequence).  A call that panics      *)
(* (panic!, assert!, unwrap on a failure, unimplemented!, todo!, a slice   *)
(* index out of range) has status "panic"; a call that returns Err has     *)
(* status "err"; a call that returns normally has status "ok".             *)
(***************************************************************************)
EXTENDS Integers, Sequences, FiniteSets, TLC

VARIABLES
    pc,       \* position of the scenario that is running
    input,    \* the in-memory value handed to an encoder / the shape of a wire
    wire,     \* the byte region a decoder reads
    writer,   \* Writer { buf, index }
    written,  \* history: the bytes accepted by the writer so far, in order
    reader,   \* Reader { index, end }
    op,       \* the operation performed by the last step, with its argument
    touched,  \* the offsets of `wire` read by the last step
    acc,      \* partial result of a decoder that is still running
    outcome   \* result of the last call: status and value

vars == <<pc, input, wire, writer, written, reader, op, touched, acc, outcome>>

----------------------------------------------------------------------------
(* Bounds of the model *)

\* largest context-specific tag number drawn as an input of Tag::encode
MaxTagNumber == 254
\* largest capacity of the region under a Writer
MaxCap == 3
\* longest byte sequence handed to one extend_from_slice / read_slice call
MaxSlice == 2
\* longest network-PDU payload of a generated link frame
MaxPayload == 3
\* largest number of property results in one object of a generated ack
MaxProps == 2
\* largest number of objects in a generated ack
MaxObjects == 3
\* largest number of property ids in a generated ReadPropertyMultiple request
MaxPropertyIds == 2
\* largest number of items in a generated item-data region
MaxItems == 2
\* longest network PDU handed to DataLink::encode
MaxNpdu == 10
\* most bytes a writer holds before DataLink::encode is called on it
MaxPrefill == 4
\* size of the region an application message is encoded into
EncodeCap == 48

----------------------------------------------------------------------------
(* Fixed-width integer arithmetic *)

U16_MAX == 65535

\* A u32 is kept as its two 16-bit halves, value = hi * 65536 + lo: TLC's
\* integers are 32-bit signed and cannot hold 4294967295.
W(n) == [hi |-> n \div 65536, lo |-> n % 65536]

U32_MAX == [hi |-> 65535, lo |-> 65535]

\* x <= n and x < n for a u32 x and a literal n below 2^31
U32Le(x, n) == x.hi < n \div 65536 \/ (x.hi = n \div 65536 /\ x.lo <= n % 65536)

U32Lt(x, n) == x.hi < n \div 65536 \/ (x.hi = n \div 65536 /\ x.lo < n % 65536)

\* x as u8, x as u16, u32::to_be_bytes(x), u32::from_be_bytes(bytes)
U32AsU8(x) == x.lo % 256

U32AsU16(x) == x.lo

U32ToBE(x) == <<x.hi \div 256, x.hi % 256, x.lo \div 256, x.lo % 256>>

U32FromBE(b) == [hi |-> b[1] * 256 + b[2], lo |-> b[3] * 256 + b[4]]

\* x as usize, for a length that is compared with region sizes; regions
\* are far shorter than 2^31 - 1 bytes, where the conversion saturates
U32AsUsize(x) == IF x.hi < 32768 THEN x.hi * 65536 + x.lo ELSE 2147483647

RECURSIVE BitOr(_, _)
BitOr(a, b) ==
    IF a = 0 THEN b
    ELSE IF b = 0 THEN a
    ELSE (IF a % 2 = 1 \/ b % 2 = 1 THEN 1 ELSE 0) + 2 * BitOr(a \div 2, b \div 2)

RECURSIVE BitAnd(_, _)
BitAnd(a, b) ==
    IF a = 0 \/ b = 0 THEN 0
    ELSE (IF a % 2 = 1 /\ b % 2 = 1 THEN 1 ELSE 0) + 2 * BitAnd(a \div 2, b \div 2)

\* u8 << n
Shl8(x, n) == (x * (2 ^ n)) % 256

\* u16::to_be_bytes
BE16(x) == <<(x \div 256) % 256, x % 256>>

\* u16::from_be_bytes, and any big-endian byte string below 2^31
RECURSIVE FromBE(_)
FromBE(bytes) ==
    IF bytes = <<>> THEN 0
    ELSE bytes[Len(bytes)] + 256 * FromBE(SubSeq(bytes, 1, Len(bytes) - 1))

Zeros(n) == [i \in 1..n |-> 0]

\* `let x = value; rest` : the rest of a function applied to a value computed once
Then(x, Rest(_)) == Rest(x)

\* buf[from..to] as a sequence, offsets counted from 0, `to` exclusive
Slice(buf, from, to) == SubSeq(buf, from + 1, to)

----------------------------------------------------------------------------
(* common/io.rs : Writer *)

Writer_new(cap) == [buf |-> Zeros(cap), index |-> 0]

\* push : `self.buf[self.index] = item` panics when index is out of range
Writer_push_unchecked(w, item) ==
    [st |-> "ok",
     w  |-> [buf   |-> IF w.index < Len(w.buf)
                       THEN [w.buf EXCEPT ![w.index + 1] = item] ELSE w.buf,
             index |-> w.index + 1]]

Writer_push(w, item) ==
    IF w.index >= Len(w.buf)
    THEN [st |-> "panic", w |-> w]
    ELSE [st |-> "ok",
          w  |-> [buf |-> [w.buf EXCEPT ![w.index + 1] = item], index |-> w.index + 1]]

Writer_extend_from_slice(w, src) ==
    IF ~(Len(src) <= Len(w.buf) - w.index)
    THEN [st |-> "panic", w |-> w]
    ELSE [st |-> "ok",
          w  |-> [buf   |-> [i \in 1..Len(w.buf) |->
                                IF i > w.index /\ i <= w.index + Len(src)
                                THEN src[i - w.index] ELSE w.buf[i]],
                  index |-> w.index + Len(src)]]

Writer_to_bytes(w) == SubSeq(w.buf, 1, w.index)

----------------------------------------------------------------------------
(* common/io.rs : Reader *)

Reader_eof(r) == r.index >= r.end

Reader_new_with_len(len) == [index |-> 0, end |-> len]

Reader_set_len(r, len) == [r EXCEPT !.end = len]

\* a failed read: nothing is consumed and nothing is read
ReadPanic(r) == [st |-> "panic", rd |-> r, val |-> <<>>, touched |-> {}]

\* a slip in read_byte: no test against end; the byte past the region reads 0
Reader_read_byte_past_end(r, buf) ==
    [st |-> "ok", rd |-> [r EXCEPT !.index = @ + 1],
     val |-> IF r.index < Len(buf) THEN buf[r.index + 1] ELSE 0, touched |-> {r.index}]

\* read_byte : panics at eof; `buf[self.index]` panics past the slice
Reader_read_byte(r, buf) ==
    IF Reader_eof(r) \/ r.index >= Len(buf)
    THEN ReadPanic(r)
    ELSE [st |-> "ok", rd |-> [r EXCEPT !.index = @ + 1],
          val |-> buf[r.index + 1], touched |-> {r.index}]

\* read_bytes::<COUNT> : val is the array read
Reader_read_bytes(r, count, buf) ==
    IF r.index + count > r.end \/ r.index + count > Len(buf)
    THEN ReadPanic(r)
    ELSE [st |-> "ok", rd |-> [r EXCEPT !.index = @ + count],
          val |-> Slice(buf, r.index, r.index + count),
          touched |-> r.index .. (r.index + count - 1)]

Reader_read_slice(r, len, buf) ==
    IF r.index + len > r.end \/ r.index + len > Len(buf)
    THEN ReadPanic(r)
    ELSE [st |-> "ok", rd |-> [r EXCEPT !.index = @ + len],
          val |-> Slice(buf, r.index, r.index + len),
          touched |-> r.index .. (r.index + len - 1)]

----------------------------------------------------------------------------
(* common/tag.rs : Tag { number, value } *)
(* number is Application(n) or ContextSpecific(n): [class, num]            *)

AppTag(n, v) == [class |-> "app", num |-> n, value |-> v]

CtxTag(n, v) == [class |-> "ctx", num |-> n, value |-> v]

is_extended_tag_number(byte0) == BitAnd(byte0, 240) = 240

is_extended_value(byte0) == BitAnd(byte0, 7) = 5

is_context_specific(byte0) == BitAnd(byte0, 8) = 8

is_opening_tag(byte0) == BitAnd(byte0, 7) = 6

is_closing_tag(byte0) == BitAnd(byte0, 7) = 7

\* Tag::encode : the bytes buf[..len] handed to extend_from_slice
Tag_encode_bytes(tag) ==
    LET b0n == IF tag.class = "app"
               THEN BitOr(0, Shl8(tag.num, 4))
               ELSE IF tag.num <= 14
                    THEN BitOr(8, Shl8(tag.num, 4))
                    ELSE BitOr(8, 240)
        numBytes == IF tag.class = "ctx" /\ tag.num > 14 THEN <<tag.num>> ELSE <<>>
        b0 == IF U32Le(tag.value, 4) THEN BitOr(b0n, U32AsU8(tag.value)) ELSE BitOr(b0n, 5)
        valBytes ==
            IF U32Le(tag.value, 4) THEN <<>>
            ELSE IF U32Le(tag.value, 253) THEN <<U32AsU8(tag.value)>>
            ELSE IF U32Lt(tag.value, U16_MAX)
                 THEN <<U32AsU8(tag.value)>> \o BE16(U32AsU16(tag.value))
                 ELSE <<U32AsU8(tag.value)>> \o U32ToBE(tag.value)
    IN  <<b0>> \o numBytes \o valBytes

Tag_encode(tag, w) == Writer_extend_from_slice(w, Tag_encode_bytes(tag))

TagPanic(r) ==
    [st |-> "panic", rd |-> r, class |-> "none", num |-> 0, value |-> W(0), byte0 |-> 0]

\* decode_tag_number : (number, byte0)
decode_tag_number(r, buf) ==
    Then(Reader_read_byte(r, buf), LAMBDA a :
    IF a.st # "ok" THEN TagPanic(a.rd)
    ELSE IF is_context_specific(a.val)
         THEN IF is_extended_tag_number(a.val)
              THEN Then(Reader_read_byte(a.rd, buf), LAMBDA b :
                   IF b.st # "ok" THEN TagPanic(b.rd)
                   ELSE [st |-> "ok", rd |-> b.rd, class |-> "ctx", num |-> b.val,
                         value |-> W(0), byte0 |-> a.val])
              ELSE [st |-> "ok", rd |-> a.rd, class |-> "ctx", num |-> a.val \div 16,
                    value |-> W(0), byte0 |-> a.val]
         ELSE [st |-> "ok", rd |-> a.rd, class |-> "app", num |-> a.val \div 16,
               value |-> W(0), byte0 |-> a.val])

\* Tag::decode
Tag_decode(r, buf) ==
    Then(decode_tag_number(r, buf), LAMBDA n :
    IF n.st # "ok" THEN n
    ELSE IF is_extended_value(n.byte0)
         THEN Then(Reader_read_byte(n.rd, buf), LAMBDA b :
              IF b.st # "ok" THEN TagPanic(b.rd)
              ELSE IF b.val = 255
                   THEN Then(Reader_read_bytes(b.rd, 4, buf), LAMBDA x :
                        IF x.st # "ok" THEN TagPanic(x.rd)
                        ELSE [n EXCEPT !.rd = x.rd, !.value = U32FromBE(x.val)])
              ELSE IF b.val = 254
                   THEN Then(Reader_read_bytes(b.rd, 2, buf), LAMBDA x :
                        IF x.st # "ok" THEN TagPanic(x.rd)
                        ELSE [n EXCEPT !.rd = x.rd, !.value = W(FromBE(x.val))])
              ELSE [n EXCEPT !.rd = b.rd, !.value = W(b.val)])
         ELSE IF is_opening_tag(n.byte0) \/ is_closing_tag(n.byte0)
              THEN [n EXCEPT !.value = W(0)]
              ELSE [n EXCEPT !.value = W(BitAnd(n.byte0, 7))])

----------------------------------------------------------------------------
(* Values of the variables a scenario does not use *)

NoReader == Reader_new_with_len(0)

NoWriter == Writer_new(0)

NoOutcome == [st |-> "none"]

NoOp == [name |-> "none"]

\* the record kept in `op`: the call, its argument, the cursor it started from
Call(name, arg, before) == [name |-> name, arg |-> arg, before |-> before]

----------------------------------------------------------------------------
(* Tag round trip: a tag is encoded into a fresh writer, then the written  *)
(* bytes are decoded with a reader over exactly those bytes.               *)

\* [u8; 10] scratch array of Tag::encode; the writer region is as large
TagScratch == 10

TagValues ==
    {W(0), W(4), W(5), W(253), W(254), W(300), W(65534), W(65535), W(65536), U32_MAX}

TagInputs ==
    {AppTag(n, v) : n \in 0..15, v \in TagValues}
        \cup {CtxTag(n, v) : n \in 0..MaxTagNumber, v \in TagValues}

TagInit ==
    /\ pc = "tag"
    /\ input \in TagInputs
    /\ wire = <<>>
    /\ writer = Writer_new(TagScratch)
    /\ written = <<>>
    /\ reader = NoReader
    /\ op = NoOp
    /\ touched = {}
    /\ acc = <<>>
    /\ outcome = NoOutcome

TagEncode ==
    /\ pc = "tag"
    /\ Then(Tag_encode(input, writer), LAMBDA e :
        /\ writer' = e.w
        /\ written' = IF e.st = "ok" THEN written \o Tag_encode_bytes(input) ELSE written
        /\ wire' = Writer_to_bytes(e.w)
        /\ outcome' = [st |-> e.st])
    /\ op' = Call("Tag::encode", input, writer)
    /\ pc' = "tag_encoded"
    /\ UNCHANGED <<input, reader, touched, acc>>

TagDecode ==
    /\ pc = "tag_encoded"
    /\ Then(Tag_decode(Reader_new_with_len(Len(wire)), wire), LAMBDA d :
        /\ reader' = d.rd
        /\ outcome' = [st |-> d.st,
                       tag |-> [class |-> d.class, num |-> d.num, value |-> d.value]])
    /\ op' = Call("Tag::decode", <<>>, Reader_new_with_len(Len(wire)))
    /\ pc' = "tag_decoded"
    /\ UNCHANGED <<input, wire, writer, written, touched, acc>>

TagNext == TagEncode \/ TagDecode

SpecTag == TagInit /\ [][TagNext]_vars

(* What the written bytes of a tag look like *)

\* number of bytes Tag::encode spends on the tag number after byte 0
TagNumberExtra(tag) == IF tag.class = "ctx" /\ tag.num > 14 THEN 1 ELSE 0

\* the bytes that follow the tag-number byte(s)
TagValueBytes(tag, bytes) == SubSeq(bytes, 2 + TagNumberExtra(tag), Len(bytes))

\* C1: for every application tag 0-15 and context tag 0-254 and every
\* boundary value, encode followed by decode over the written bytes returns
\* the same number and the same value, and the read cursor ends exactly at
\* the number of bytes written.
C1_TagRoundTrip ==
    pc = "tag_decoded" =>
        /\ outcome.st = "ok"
        /\ outcome.tag.class = input.class
        /\ outcome.tag.num = input.num
        /\ outcome.tag.value = input.value
        /\ reader.index = writer.index

\* C2: encode picks the smallest representation: number in the high nibble
\* when it is at most 14, marker nibble 1111 plus one byte otherwise; value
\* in the low three bits for 0-4, one extra byte for 5-253, marker plus two
\* bytes for 254-65535, marker plus four bytes only above 65535; context
\* tag 0 with value 4 is the single byte 0x0C.
C2_SmallestEncoding ==
    pc = "tag_encoded" =>
        LET v == input.value
            valLen == IF U32Le(v, 4) THEN 0
                      ELSE IF U32Le(v, 253) THEN 1
                      ELSE IF U32Le(v, 65535) THEN 3
                      ELSE 5
        IN  /\ outcome.st = "ok"
            /\ input.num <= 14 => wire[1] \div 16 = input.num
            /\ (input.class = "ctx" /\ input.num > 14) =>
                   wire[1] \div 16 = 15 /\ wire[2] = input.num
            /\ Len(wire) = 1 + TagNumberExtra(input) + valLen
            /\ U32Le(v, 4) => wire[1] % 8 = v.lo
            /\ ~U32Le(v, 4) => wire[1] % 8 = 5
            /\ input = CtxTag(0, W(4)) => wire = <<12>>

\* C3: in an extended value form the byte after the tag-number byte(s) is
\* 254 when a two-byte big-endian length follows, 255 when a four-byte
\* big-endian length follows, and the length itself only for 0-253; context
\* tag 1 with value 300 is written as 0x1D 0xFE 0x01 0x2C.
C3_ExtendedMarkers ==
    pc = "tag_encoded" /\ wire # <<>> /\ wire[1] % 8 = 5 =>
        LET vb == TagValueBytes(input, wire) IN
        /\ Len(vb) = 1 => vb[1] <= 253 /\ W(vb[1]) = input.value
        /\ Len(vb) = 3 => vb[1] = 254 /\ W(FromBE(SubSeq(vb, 2, 3))) = input.value
        /\ Len(vb) = 5 => vb[1] = 255 /\ U32FromBE(SubSeq(vb, 2, 5)) = input.value
        /\ input = CtxTag(1, W(300)) => wire = <<29, 254, 1, 44>>

----------------------------------------------------------------------------
(* Writer scenario: any sequence of push and extend_from_slice calls on a  *)
(* writer over a region of some capacity.  A panicking call unwinds; the   *)
(* writer it borrowed is left as the call left it.                         *)

WriteBytes == {0, 129, 255}

RECURSIVE SeqsUpTo(_, _)
SeqsUpTo(S, n) ==
    IF n = 0 THEN {<<>>}
    ELSE LET shorter == SeqsUpTo(S, n - 1) IN
         shorter \cup {Append(q, x) : q \in {t \in shorter : Len(t) = n - 1}, x \in S}

WriterInit ==
    /\ pc = "writer"
    /\ input = <<>>
    /\ wire = <<>>
    /\ writer \in {Writer_new(cap) : cap \in 0..MaxCap}
    /\ written = <<>>
    /\ reader = NoReader
    /\ op = NoOp
    /\ touched = {}
    /\ acc = <<>>
    /\ outcome = NoOutcome

WriterPush ==
    /\ pc = "writer"
    /\ \E item \in WriteBytes :
        Then(Writer_push(writer, item), LAMBDA r :
        /\ writer' = r.w
        /\ written' = IF r.st = "ok" THEN Append(written, item) ELSE written
        /\ outcome' = [st |-> r.st]
        /\ op' = Call("push", <<item>>, writer))
    /\ UNCHANGED <<pc, input, wire, reader, touched, acc>>

WriterExtend ==
    /\ pc = "writer"
    /\ \E src \in SeqsUpTo(WriteBytes, MaxSlice) :
        Then(Writer_extend_from_slice(writer, src), LAMBDA r :
        /\ writer' = r.w
        /\ written' = IF r.st = "ok" THEN written \o src ELSE written
        /\ outcome' = [st |-> r.st]
        /\ op' = Call("extend_from_slice", src, writer))
    /\ UNCHANGED <<pc, input, wire, reader, touched, acc>>

WriterNext == WriterPush \/ WriterExtend

SpecWriter == WriterInit /\ [][WriterNext]_vars

\* C7: the write position never exceeds the capacity of the region; a
\* write that would exceed the capacity fails and leaves the position and
\* the bytes written before unchanged; to_bytes is exactly the bytes
\* written so far, in order.
C7_WriterBounded ==
    /\ writer.index <= Len(writer.buf)
    /\ Writer_to_bytes(writer) = written
    /\ op.name \in {"push", "extend_from_slice"} =>
        IF op.before.index + Len(op.arg) > Len(op.before.buf)
        THEN outcome.st # "ok" /\ writer = op.before
        ELSE /\ outcome.st = "ok"
             /\ writer.index = op.before.index + Len(op.arg)
             /\ Writer_to_bytes(writer) = Writer_to_bytes(op.before) \o op.arg

\* a write was refused on a writer that already holds bytes
C7_Witness ==
    /\ op.name \in {"push", "extend_from_slice"}
    /\ outcome.st = "panic"
    /\ written # <<>>
    /\ writer.index + Len(op.arg) > Len(writer.buf)

----------------------------------------------------------------------------
(* network_protocol/data_link.rs : link-layer framing *)

BVLL_TYPE_BACNET_IP == 129

OriginalUnicastNpdu == 10

OriginalBroadcastNpdu == 11

\* impl TryFrom<u8> for DataLinkFunction : Ok for 0..11, Err(x) otherwise
DataLinkFunction_try_from(value) ==
    IF value <= 11 THEN [st |-> "ok", val |-> value] ELSE [st |-> "err", val |-> value]

LinkResult(st, r, error, function, npdu) ==
    [st |-> st, rd |-> r, error |-> error, function |-> function, npdu |-> npdu]

\* NetworkPdu::decode : the version byte, the control byte, then the
\* application PDU, which takes the rest of the visible region
NetworkPdu_decode(r, buf) ==
    Then(Reader_read_byte(r, buf), LAMBDA v :
    IF v.st # "ok" THEN [st |-> "panic", rd |-> v.rd, error |-> "none", val |-> <<>>]
    ELSE Then(Reader_read_byte(v.rd, buf), LAMBDA c :
    IF c.st # "ok" THEN [st |-> "panic", rd |-> c.rd, error |-> "none", val |-> <<>>]
    ELSE Then(Reader_read_slice(c.rd, c.rd.end - c.rd.index, buf), LAMBDA a :
    IF a.st # "ok" THEN [st |-> "panic", rd |-> a.rd, error |-> "none", val |-> <<>>]
    ELSE [st |-> "ok", rd |-> a.rd, error |-> "none", val |-> <<v.val, c.val>> \o a.val])))

\* a slip in DataLink::decode: the declared length is not compared with
\* the buffer before the region is narrowed
DataLink_decode_no_length_check(r, buf) ==
    Then(Reader_read_byte(r, buf), LAMBDA t :
    IF t.st # "ok" THEN LinkResult("panic", t.rd, "none", 0, <<>>)
    ELSE IF t.val # BVLL_TYPE_BACNET_IP THEN LinkResult("panic", t.rd, "none", 0, <<>>)
    ELSE Then(Reader_read_byte(t.rd, buf), LAMBDA b :
    IF b.st # "ok" THEN LinkResult("panic", b.rd, "none", 0, <<>>)
    ELSE Then(DataLinkFunction_try_from(b.val), LAMBDA f :
    IF f.st # "ok" THEN LinkResult("err", b.rd, "InvalidValue", 0, <<>>)
    ELSE Then(Reader_read_bytes(b.rd, 2, buf), LAMBDA l :
    IF l.st # "ok" THEN LinkResult("panic", l.rd, "none", f.val, <<>>)
    ELSE Then(Reader_set_len(l.rd, FromBE(l.val)), LAMBDA narrowed :
    IF f.val \in {OriginalBroadcastNpdu, OriginalUnicastNpdu}
    THEN Then(NetworkPdu_decode(narrowed, buf), LAMBDA n :
         LinkResult(n.st, n.rd, n.error, f.val, n.val))
    ELSE LinkResult("ok", narrowed, "none", f.val, <<>>))))))

\* DataLink::decode
DataLink_decode(r, buf) ==
    Then(Reader_read_byte(r, buf), LAMBDA t :
    IF t.st # "ok" THEN LinkResult("panic", t.rd, "none", 0, <<>>)
    ELSE IF t.val # BVLL_TYPE_BACNET_IP THEN LinkResult("panic", t.rd, "none", 0, <<>>)
    ELSE Then(Reader_read_byte(t.rd, buf), LAMBDA b :
    IF b.st # "ok" THEN LinkResult("panic", b.rd, "none", 0, <<>>)
    ELSE Then(DataLinkFunction_try_from(b.val), LAMBDA f :
    IF f.st # "ok" THEN LinkResult("err", b.rd, "InvalidValue", 0, <<>>)
    ELSE Then(Reader_read_bytes(b.rd, 2, buf), LAMBDA l :
    IF l.st # "ok" THEN LinkResult("panic", l.rd, "none", f.val, <<>>)
    ELSE Then(FromBE(l.val), LAMBDA len :
    IF len > Len(buf) THEN LinkResult("err", l.rd, "Length", f.val, <<>>)
    ELSE Then(Reader_set_len(l.rd, len), LAMBDA narrowed :
    IF f.val \in {OriginalBroadcastNpdu, OriginalUnicastNpdu}
    THEN Then(NetworkPdu_decode(narrowed, buf), LAMBDA n :
         LinkResult(n.st, n.rd, n.error, f.val, n.val))
    ELSE LinkResult("ok", narrowed, "none", f.val, <<>>)))))))

----------------------------------------------------------------------------
(* Reader scenario: any sequence of read_byte, read_bytes, read_slice,     *)
(* set_len and DataLink::decode calls on one reader over a received        *)
(* region.  The region holds a link frame, whole or cut short; the reader  *)
(* starts with the number of bytes the caller announces as received.       *)

\* a network PDU of n bytes: version 1, control 0, then application bytes
NpduBytes(n) == [i \in 1..n |-> IF i = 1 THEN 1 ELSE IF i = 2 THEN 0 ELSE 16]

FrameTypes == {BVLL_TYPE_BACNET_IP, 1}

FrameFunctions == {0, OriginalUnicastNpdu, 12}

DeclaredLens == 0..(4 + MaxPayload + 1) \cup {300}

FrameWires ==
    {<<t, f>> \o BE16(l) \o NpduBytes(n) :
        t \in FrameTypes, f \in FrameFunctions, l \in DeclaredLens, n \in 0..MaxPayload}

Prefixes(q) == {SubSeq(q, 1, k) : k \in 0..Len(q)}

ReaderWires == FrameWires \cup Prefixes(<<BVLL_TYPE_BACNET_IP, OriginalUnicastNpdu, 0>>)

\* the COUNT parameters read_bytes is instantiated with
ReadCounts == {2, 4}

ReaderInit ==
    /\ pc = "reader"
    /\ input = <<>>
    /\ wire \in ReaderWires
    /\ writer = NoWriter
    /\ written = <<>>
    /\ reader \in {Reader_new_with_len(n) : n \in 0..(4 + MaxPayload)}
    /\ reader.end <= Len(wire)
    /\ op = NoOp
    /\ touched = {}
    /\ acc = <<>>
    /\ outcome = NoOutcome

ReaderStep(name, arg, r) ==
    /\ reader' = r.rd
    /\ touched' = r.touched
    /\ outcome' = [st |-> r.st, val |-> r.val]
    /\ op' = Call(name, arg, reader)
    /\ UNCHANGED <<pc, input, wire, writer, written, acc>>

ReadByte ==
    /\ pc = "reader"
    /\ ReaderStep("read_byte", 1, Reader_read_byte(reader, wire))

ReadBytes ==
    /\ pc = "reader"
    /\ \E count \in ReadCounts :
        ReaderStep("read_bytes", count, Reader_read_bytes(reader, count, wire))

ReadSlice ==
    /\ pc = "reader"
    /\ \E len \in 0..MaxSlice :
        ReaderStep("read_slice", len, Reader_read_slice(reader, len, wire))

SetLen ==
    /\ pc = "reader"
    /\ \E len \in 0..(Len(wire) + 1) :
        /\ reader' = Reader_set_len(reader, len)
        /\ touched' = {}
        /\ outcome' = [st |-> "ok", val |-> <<>>]
        /\ op' = Call("set_len", len, reader)
    /\ UNCHANGED <<pc, input, wire, writer, written, acc>>

DataLinkDecode ==
    /\ pc = "reader"
    /\ Then(DataLink_decode(reader, wire), LAMBDA d :
        /\ reader' = d.rd
        /\ touched' = reader.index .. (d.rd.index - 1)
        /\ outcome' = [st |-> d.st, val |-> [error |-> d.error, function |-> d.function,
                                             npdu |-> d.npdu]]
        /\ op' = Call("DataLink::decode", <<>>, reader))
    /\ UNCHANGED <<pc, input, wire, writer, written, acc>>

ReaderNext == ReadByte \/ ReadBytes \/ ReadSlice \/ SetLen \/ DataLinkDecode

SpecReader == ReaderInit /\ [][ReaderNext]_vars

ReadOps == {"read_byte", "read_bytes", "read_slice"}

ReaderOps == ReadOps \cup {"set_len", "DataLink::decode"}

\* C5: after any sequence of read-cursor operations, set_len by
\* DataLink::decode on a length taken from the wire included, the position
\* is not smaller than it was before the operation and does not exceed end.
C5_ReaderPositionBounded ==
    op.name \in ReaderOps =>
        /\ op.before.index <= reader.index
        /\ reader.index <= reader.end

\* C6: a successful read_byte, read_bytes<N> or read_slice(len) advances
\* the position by exactly 1, N or len; a read that would pass `end` is a
\* failure reported to the caller, leaves the position unchanged and reads
\* no byte at an offset >= end.
C6_ReadAdvancesOrFails ==
    op.name \in ReadOps =>
        /\ outcome.st = "ok" => reader.index = op.before.index + op.arg
        /\ op.before.index + op.arg > op.before.end =>
               /\ outcome.st = "err"
               /\ reader = op.before
        /\ \A o \in touched : o < op.before.end

\* DataLink::decode was called at the start of the region with the four
\* header bytes visible
FrameDecoded ==
    /\ op.name = "DataLink::decode"
    /\ op.before.index = 0
    /\ op.before.end >= 4
    /\ Len(wire) >= 4

DeclaredLength == wire[3] * 256 + wire[4]

\* C16: DataLink::decode of a frame whose declared length exceeds the size
\* of the buffer it arrived in returns a Length error, and has read no
\* byte at offset 4 or beyond when it does.
C16_OverlongLengthRejected ==
    FrameDecoded /\ wire[1] = BVLL_TYPE_BACNET_IP /\ wire[2] <= 11
        /\ DeclaredLength > Len(wire) =>
            /\ outcome.st = "err"
            /\ outcome.val.error = "Length"
            /\ \A o \in touched : o < 4
            /\ reader.index = 4

\* a unicast frame of 7 bytes that declares 8 was refused
C16_Witness ==
    /\ FrameDecoded
    /\ wire = <<129, 10, 0, 8, 1, 0, 16>>
    /\ outcome.st = "err"
    /\ outcome.val.error = "Length"
    /\ touched = 0..3

\* C17: DataLink::decode returns a typed failure, and never aborts, when
\* the type marker is not 0x81 or the function byte is none of the
\* enumerated functions; functions 10 and 11 are the only ones followed by
\* a network PDU decode, every other valid function yields a frame without
\* one.
C17_HeaderRejectedWithError ==
    FrameDecoded =>
        /\ wire[1] # BVLL_TYPE_BACNET_IP => outcome.st = "err"
        /\ wire[1] = BVLL_TYPE_BACNET_IP /\ wire[2] > 11 => outcome.st = "err"
        /\ outcome.st = "ok" /\ wire[2] \notin {OriginalUnicastNpdu, OriginalBroadcastNpdu} =>
               outcome.val.npdu = <<>> /\ reader.index = 4
        /\ outcome.st = "ok" /\ wire[2] \in {OriginalUnicastNpdu, OriginalBroadcastNpdu} =>
               outcome.val.npdu # <<>>


----------------------------------------------------------------------------
(* Primitive value codecs used by the service codecs *)

ValResult(st, r, val) == [st |-> st, rd |-> r, val |-> val]

\* ObjectId::decode(reader, size) : a four-byte identifier, None otherwise
ObjectId_decode(r, size, buf) ==
    IF size # W(4) THEN ValResult("err", r, <<>>)
    ELSE Then(Reader_read_bytes(r, 4, buf), LAMBDA x : ValResult(x.st, x.rd, x.val))

\* decode_unsigned(reader, len) : len bytes, big-endian
decode_unsigned(r, len, buf) ==
    Then(Reader_read_slice(r, U32AsUsize(len), buf), LAMBDA x : ValResult(x.st, x.rd, x.val))

ApplicationTagNumber_Null == 0

ApplicationTagNumber_Boolean == 1

\* ApplicationDataValue::decode(&tag, reader) : an application-tagged
\* value; null and boolean live in the tag, the others take tag.value bytes
ApplicationDataValue_decode(tag, r, buf) ==
    IF tag.class # "app" THEN ValResult("panic", r, <<>>)
    ELSE IF tag.num \in {ApplicationTagNumber_Null, ApplicationTagNumber_Boolean}
         THEN ValResult("ok", r, <<tag.num, tag.value.lo>>)
         ELSE Then(Reader_read_slice(r, U32AsUsize(tag.value), buf), LAMBDA x :
              ValResult(x.st, x.rd, <<tag.num>> \o x.val))

PropEventTimeStamps == 130

PropPresentValue == 85

PropLogBuffer == 131

----------------------------------------------------------------------------
(* application_protocol/read_property_multiple.rs : ReadPropertyMultipleAck *)

IsCtx(t, n) == t.class = "ctx" /\ t.num = n

RpmStep(st, r, kind, id, val) == [st |-> st, rd |-> r, kind |-> kind, id |-> id, val |-> val]

\* one pass of `while !reader.eof()` up to the start of the inner loop:
\* the object-id tag, the object id, the tag that opens the result list
RpmObjectHead(r, buf) ==
    Then(Tag_decode(r, buf), LAMBDA t :
    IF t.st # "ok" \/ ~IsCtx(t, 0) THEN RpmStep("panic", t.rd, "none", <<>>, <<>>)
    ELSE Then(ObjectId_decode(t.rd, t.value, buf), LAMBDA o :
    IF o.st # "ok" THEN RpmStep("panic", o.rd, "none", <<>>, <<>>)
    ELSE Then(Tag_decode(o.rd, buf), LAMBDA l :
    IF l.st # "ok" \/ ~IsCtx(l, 1) THEN RpmStep("panic", l.rd, "none", <<>>, <<>>)
    ELSE RpmStep("ok", l.rd, "object", o.val, <<>>))))

\* one pass of the inner `loop`: the end of the list, a property whose
\* value is decoded, or a property whose value is skipped byte by byte
RpmProperty(r, buf) ==
    Then(Tag_decode(r, buf), LAMBDA t :
    IF t.st # "ok" THEN RpmStep("panic", t.rd, "none", <<>>, <<>>)
    ELSE IF IsCtx(t, 1) THEN RpmStep("ok", t.rd, "close", <<>>, <<>>)
    ELSE IF ~IsCtx(t, 2) THEN RpmStep("panic", t.rd, "none", <<>>, <<>>)
    ELSE Then(decode_unsigned(t.rd, t.value, buf), LAMBDA p :
    IF p.st # "ok" THEN RpmStep("panic", p.rd, "none", <<>>, <<>>)
    ELSE Then(Tag_decode(p.rd, buf), LAMBDA o :
    IF o.st # "ok" \/ ~IsCtx(o, 4) THEN RpmStep("panic", o.rd, "none", <<>>, <<>>)
    ELSE IF p.val = <<PropEventTimeStamps>> THEN RpmStep("ok", o.rd, "skip", p.val, <<>>)
    ELSE Then(Tag_decode(o.rd, buf), LAMBDA vt :
    IF vt.st # "ok" THEN RpmStep("panic", vt.rd, "none", <<>>, <<>>)
    ELSE Then(ApplicationDataValue_decode(vt, vt.rd, buf), LAMBDA v :
    IF v.st # "ok" THEN RpmStep("panic", v.rd, "none", <<>>, <<>>)
    ELSE Then(Tag_decode(v.rd, buf), LAMBDA c :
    IF c.st # "ok" \/ ~IsCtx(c, 4) THEN RpmStep("panic", c.rd, "none", <<>>, <<>>)
    ELSE RpmStep("ok", c.rd, "result", p.val, v.val)))))))

\* the byte that ends the byte-by-byte skip
SkipEnd == 79

RpmAcc(objects, object_id, results) ==
    [objects |-> objects, object_id |-> object_id, results |-> results]

\* the control state of ReadPropertyMultipleAck::decode
RpmState(p, r, a, o) == [pc |-> p, rd |-> r, acc |-> a, out |-> o]

RpmStart(r) == RpmState("rpm_outer", r, RpmAcc(<<>>, <<>>, <<>>), NoOutcome)

RpmPanic(s, r) == RpmState("rpm_done", r, s.acc, [st |-> "panic", val |-> <<>>])

\* `while !reader.eof()` : return the objects, or start the next object
RpmOuterStep(s, buf) ==
    IF Reader_eof(s.rd)
    THEN RpmState("rpm_done", s.rd, s.acc, [st |-> "ok", val |-> s.acc.objects])
    ELSE Then(RpmObjectHead(s.rd, buf), LAMBDA h :
         IF h.st # "ok" THEN RpmPanic(s, h.rd)
         ELSE RpmState("rpm_inner", h.rd, RpmAcc(s.acc.objects, h.id, <<>>), s.out))

\* a slip in the inner loop: an object whose result list is empty is not kept
RpmInnerStep_drop_empty(s, buf) ==
    Then(RpmProperty(s.rd, buf), LAMBDA p :
    IF p.st # "ok" THEN RpmPanic(s, p.rd)
    ELSE IF p.kind = "close"
    THEN RpmState("rpm_outer", p.rd,
                  RpmAcc(IF s.acc.results = <<>> THEN s.acc.objects
                         ELSE Append(s.acc.objects,
                                     [object_id |-> s.acc.object_id,
                                      results |-> s.acc.results]),
                         <<>>, <<>>),
                  s.out)
    ELSE IF p.kind = "skip"
    THEN RpmState("rpm_skip", p.rd, s.acc, s.out)
    ELSE RpmState("rpm_inner", p.rd,
                  [s.acc EXCEPT !.results = Append(@, [id |-> p.id, value |-> p.val])],
                  s.out))

\* inner `loop`
RpmInnerStep(s, buf) ==
    Then(RpmProperty(s.rd, buf), LAMBDA p :
    IF p.st # "ok" THEN RpmPanic(s, p.rd)
    ELSE IF p.kind = "close"
    THEN RpmState("rpm_outer", p.rd,
                  RpmAcc(Append(s.acc.objects,
                                [object_id |-> s.acc.object_id, results |-> s.acc.results]),
                         <<>>, <<>>),
                  s.out)
    ELSE IF p.kind = "skip"
    THEN RpmState("rpm_skip", p.rd, s.acc, s.out)
    ELSE RpmState("rpm_inner", p.rd,
                  [s.acc EXCEPT !.results = Append(@, [id |-> p.id, value |-> p.val])],
                  s.out))

\* a slip in the skip loop: the byte is looked at but not consumed
RpmSkipStep_peek(s, buf) ==
    Then(Reader_read_byte(s.rd, buf), LAMBDA b :
    IF b.st # "ok" THEN RpmPanic(s, b.rd)
    ELSE IF b.val = SkipEnd
    THEN RpmState("rpm_inner", b.rd,
                  [s.acc EXCEPT !.results =
                      Append(@, [id |-> <<PropEventTimeStamps>>,
                                 value |-> <<ApplicationTagNumber_Boolean, 0>>])],
                  s.out)
    ELSE RpmState("rpm_skip", s.rd, s.acc, s.out))

\* `loop { let byte = reader.read_byte(); if byte == 0x4f { break ... } }`
RpmSkipStep(s, buf) ==
    Then(Reader_read_byte(s.rd, buf), LAMBDA b :
    IF b.st # "ok" THEN RpmPanic(s, b.rd)
    ELSE IF b.val = SkipEnd
    THEN RpmState("rpm_inner", b.rd,
                  [s.acc EXCEPT !.results =
                      Append(@, [id |-> <<PropEventTimeStamps>>,
                                 value |-> <<ApplicationTagNumber_Boolean, 0>>])],
                  s.out)
    ELSE RpmState("rpm_skip", b.rd, s.acc, s.out))

RpmAdvance(s, buf) ==
    IF s.pc = "rpm_outer" THEN RpmOuterStep(s, buf)
    ELSE IF s.pc = "rpm_inner" THEN RpmInnerStep(s, buf)
    ELSE RpmSkipStep(s, buf)

\* ReadPropertyMultipleAck::decode, run to its return or panic
RECURSIVE RpmRun(_, _)
RpmRun(s, buf) == IF s.pc = "rpm_done" THEN s ELSE RpmRun(RpmAdvance(s, buf), buf)

ReadPropertyMultipleAck_decode(r, buf) ==
    Then(RpmRun(RpmStart(r), buf), LAMBDA s : ValResult(s.out.st, s.rd, s.out.val))

----------------------------------------------------------------------------
(* ReadPropertyMultipleAck scenario: an ack body is built from a shape     *)
(* (how many objects, how many results each, which form each bracketing    *)
(* tag has on the wire) and decoded loop pass by loop pass.                *)

TagForms == {"opening", "closing", "plain"}

\* byte 0 of a context tag numbered n <= 14 in the given form
FormByte(n, form) ==
    n * 16 + 8 + (IF form = "opening" THEN 6 ELSE IF form = "closing" THEN 7 ELSE 0)

\* the value bytes of one property: a real, or timestamps the codec skips
RpmValueBytes(pid) ==
    IF pid = PropEventTimeStamps THEN <<46, 164, 0, 47>> ELSE <<68, 66, 0, 0, 0>>

RpmPropertyBytes(shape) ==
    <<41, shape.pid>> \o <<FormByte(4, shape.open4)>> \o RpmValueBytes(shape.pid)
        \o <<FormByte(4, shape.close4)>>

RECURSIVE Repeat(_, _)
Repeat(q, n) == IF n = 0 THEN <<>> ELSE q \o Repeat(q, n - 1)

RpmObjectBytes(shape, k) ==
    <<12, 0, 0, 0, k>> \o <<FormByte(1, shape.open1)>>
        \o Repeat(RpmPropertyBytes(shape), shape.props[k])
        \o <<FormByte(1, shape.close1)>>

RECURSIVE RpmAckBytes(_, _)
RpmAckBytes(shape, k) ==
    IF k > Len(shape.props) THEN <<>>
    ELSE RpmObjectBytes(shape, k) \o RpmAckBytes(shape, k + 1)

RpmShapes ==
    [props : SeqsUpTo(0..MaxProps, MaxObjects),
     pid   : {PropPresentValue, PropEventTimeStamps},
     open1 : TagForms, close1 : TagForms, open4 : TagForms, close4 : TagForms]

RpmInit ==
    /\ pc = "rpm_outer"
    /\ input \in RpmShapes
    /\ wire = RpmAckBytes(input, 1)
    /\ writer = NoWriter
    /\ written = <<>>
    /\ reader = Reader_new_with_len(Len(wire))
    /\ op = NoOp
    /\ touched = {}
    /\ acc = RpmAcc(<<>>, <<>>, <<>>)
    /\ outcome = NoOutcome

RpmTake(name, n) ==
    /\ op' = Call(name, <<>>, reader)
    /\ pc' = n.pc
    /\ reader' = n.rd
    /\ acc' = n.acc
    /\ outcome' = n.out
    /\ UNCHANGED <<input, wire, writer, written, touched>>

RpmOuter ==
    /\ pc = "rpm_outer"
    /\ RpmTake("rpm_outer", RpmOuterStep(RpmState(pc, reader, acc, outcome), wire))

RpmInner ==
    /\ pc = "rpm_inner"
    /\ RpmTake("rpm_inner", RpmInnerStep(RpmState(pc, reader, acc, outcome), wire))

RpmSkip ==
    /\ pc = "rpm_skip"
    /\ RpmTake("rpm_skip", RpmSkipStep(RpmState(pc, reader, acc, outcome), wire))

RpmNext == RpmOuter \/ RpmInner \/ RpmSkip

SpecRpm == RpmInit /\ [][RpmNext]_vars

\* the wire has some object, so the tags around a result list are present
RpmHasObject(shape) == Len(shape.props) > 0

\* the wire has some property, so the tags around a value are present
RpmHasProperty(shape) == \E k \in 1..Len(shape.props) : shape.props[k] > 0

\* the wire presents a plain or opening tag where closing tag 1 or 4 is
\* required, or a closing tag where opening tag 1 or 4 is required
RpmUnbalanced(shape) ==
    \/ RpmHasObject(shape) /\ shape.close1 \in {"plain", "opening"}
    \/ RpmHasObject(shape) /\ shape.open1 = "closing"
    \/ RpmHasProperty(shape) /\ shape.close4 \in {"plain", "opening"}
    \/ RpmHasProperty(shape) /\ shape.open4 = "closing"

\* C4: an ack in which an opening tag N is not matched by a closing tag N
\* (a plain or opening tag stands where closing tag 1 or 4 is required, or
\* a closing tag where opening tag 1 or 4 is required) is never decoded
\* successfully.
C4_UnbalancedTagsRejected ==
    pc = "rpm_done" /\ RpmUnbalanced(input) => outcome.st # "ok"

\* every bracketing tag of the ack has the form the grammar requires
RpmWellFormed(shape) ==
    /\ shape.open1 = "opening"
    /\ shape.close1 = "closing"
    /\ shape.open4 = "opening"
    /\ shape.close4 = "closing"

\* C11: an object entry that is the object-id tag, opening tag 1 and at
\* once closing tag 1 decodes to an entry with an empty results sequence;
\* the decode succeeds and the entries before and after it are decoded
\* unaffected, in wire order.
C11_EmptyResultsEntry ==
    pc = "rpm_done" /\ RpmWellFormed(input) =>
        /\ outcome.st = "ok"
        /\ Len(outcome.val) = Len(input.props)
        /\ \A k \in 1..Len(input.props) :
            /\ outcome.val[k].object_id = <<0, 0, 0, k>>
            /\ Len(outcome.val[k].results) = input.props[k]
            /\ input.props[k] = 0 => outcome.val[k].results = <<>>

\* an ack whose middle entry has no results, between two entries that have
C11_Witness ==
    /\ pc = "rpm_done"
    /\ RpmWellFormed(input)
    /\ input.props = <<1, 0, 2>>
    /\ outcome.st = "ok"
    /\ outcome.val[2].results = <<>>
    /\ Len(outcome.val[3].results) = 2

RpmLoops == {"rpm_outer", "rpm_inner", "rpm_skip"}

\* C12: every pass of the outer object loop, of the inner property loop
\* and of the byte-skip loop either ends the decode or strictly increases
\* the read position, which never passes the end of the region; so on
\* every input, well-formed or not, the decode ends after at most
\* end + 1 passes, and it ends with a result or a failure.
C12_LoopsAdvanceAndTerminate ==
    /\ op.name \in RpmLoops =>
        /\ pc # "rpm_done" => reader.index > op.before.index
        /\ reader.index <= reader.end
    /\ pc = "rpm_done" => outcome.st \in {"ok", "panic"}
    /\ pc # "rpm_done" => pc \in RpmLoops /\ outcome = NoOutcome

\* an ack that never presents the closing tag the skip loop looks for: the
\* loop ran to the end of the region and the decode ended there
C12_Witness ==
    /\ pc = "rpm_done"
    /\ op.name = "rpm_skip"
    /\ outcome.st = "panic"
    /\ reader.index = reader.end
    /\ reader.end = Len(wire)

----------------------------------------------------------------------------
(* Encoders write through the writer call by call; an encoder is given as  *)
(* the list of its writer calls, applied in order until one panics.        *)

Push(item) == [call |-> "push", bytes |-> <<item>>]

Extend(src) == [call |-> "extend_from_slice", bytes |-> src]

WriteOne(w, c) ==
    IF c.call = "push" THEN Writer_push(w, c.bytes[1]) ELSE Writer_extend_from_slice(w, c.bytes)

RECURSIVE WriteAll(_, _)
WriteAll(w, calls) ==
    IF calls = <<>> THEN [st |-> "ok", w |-> w]
    ELSE Then(WriteOne(w, Head(calls)), LAMBDA r :
         IF r.st # "ok" THEN r ELSE WriteAll(r.w, Tail(calls)))

\* the bytes a list of writer calls writes when none of them panics
RECURSIVE CallBytes(_)
CallBytes(calls) ==
    IF calls = <<>> THEN <<>> ELSE Head(calls).bytes \o CallBytes(Tail(calls))

----------------------------------------------------------------------------
(* common/helper.rs : tagged primitive encoders and decoders *)

BACNET_ARRAY_ALL == U32_MAX

ApplicationTagNumber_UnsignedInt == 2

ApplicationTagNumber_SignedInt == 3

\* number of bytes of the shortest big-endian form of an unsigned value
UnsignedLen(v) ==
    IF v.hi = 0 /\ v.lo < 256 THEN 1
    ELSE IF v.hi = 0 THEN 2
    ELSE IF v.hi < 256 THEN 3
    ELSE 4

\* number of bytes of the shortest two's-complement form of `v as i32`
SignedLen(v) ==
    IF v.hi < 32768
    THEN IF v.hi = 0 /\ v.lo < 128 THEN 1
         ELSE IF v.hi = 0 /\ v.lo < 32768 THEN 2
         ELSE IF v.hi < 128 THEN 3
         ELSE 4
    ELSE IF v.hi = 65535 /\ v.lo >= 65408 THEN 1
         ELSE IF v.hi = 65535 /\ v.lo >= 32768 THEN 2
         ELSE IF v.hi >= 65408 THEN 3
         ELSE 4

\* the last n of the four big-endian bytes of v
LowBytes(v, n) == SubSeq(U32ToBE(v), 5 - n, 4)

\* the u32 held by at most four big-endian bytes (`... as u32`)
U32OfBytes(b) ==
    LET n == Len(b)
        at(i) == IF i > 4 - n /\ n <= 4 THEN b[i - (4 - n)]
                 ELSE IF n > 4 THEN b[n - 4 + i] ELSE 0
    IN  [hi |-> at(1) * 256 + at(2), lo |-> at(3) * 256 + at(4)]

\* the i32 held by at most four big-endian two's-complement bytes, as its
\* sign and its 32 bits
I32OfBytes(b) ==
    LET neg == b # <<>> /\ b[1] >= 128
        pad == [i \in 1..(4 - Len(b)) |-> IF neg THEN 255 ELSE 0]
    IN  [neg |-> neg, bits |-> U32OfBytes(pad \o b)]

encode_opening_tag(tag_num) == <<Push(BitOr(BitOr(Shl8(tag_num, 4), 8), 6))>>

encode_closing_tag(tag_num) == <<Push(BitOr(BitOr(Shl8(tag_num, 4), 8), 7))>>

encode_context_object_id(tag_num, object_id) ==
    <<Extend(Tag_encode_bytes(CtxTag(tag_num, W(4)))), Extend(U32ToBE(object_id))>>

encode_context_unsigned(tag_num, value) ==
    <<Extend(Tag_encode_bytes(CtxTag(tag_num, W(UnsignedLen(value))))),
      Extend(LowBytes(value, UnsignedLen(value)))>>

encode_context_enumerated(tag_num, value) == encode_context_unsigned(tag_num, value)

encode_application_unsigned(value) ==
    <<Extend(Tag_encode_bytes(AppTag(ApplicationTagNumber_UnsignedInt, W(UnsignedLen(value))))),
      Extend(LowBytes(value, UnsignedLen(value)))>>

encode_application_signed(value) ==
    <<Extend(Tag_encode_bytes(AppTag(ApplicationTagNumber_SignedInt, W(SignedLen(value))))),
      Extend(LowBytes(value, SignedLen(value)))>>

decode_signed(r, len, buf) ==
    Then(Reader_read_slice(r, U32AsUsize(len), buf), LAMBDA x :
    ValResult(x.st, x.rd, I32OfBytes(x.val)))

----------------------------------------------------------------------------
(* application_protocol/read_property_multiple.rs : ReadPropertyMultiple   *)
(* application_protocol/read_property.rs          : ReadProperty           *)

RECURSIVE RpmPropertyCalls(_, _)
RpmPropertyCalls(property_ids, array_index) ==
    IF property_ids = <<>> THEN <<>>
    ELSE encode_context_enumerated(0, Head(property_ids))
            \o (IF array_index # BACNET_ARRAY_ALL
                THEN encode_context_unsigned(1, array_index) ELSE <<>>)
            \o RpmPropertyCalls(Tail(property_ids), array_index)

\* a slip in ReadPropertyMultiple::encode: the property list is not closed
ReadPropertyMultiple_encode_unclosed(req) ==
    encode_context_object_id(0, req.object_id)
        \o encode_opening_tag(1)
        \o RpmPropertyCalls(req.property_ids, req.array_index)

\* ReadPropertyMultiple::encode
ReadPropertyMultiple_encode(req) ==
    encode_context_object_id(0, req.object_id)
        \o encode_opening_tag(1)
        \o RpmPropertyCalls(req.property_ids, req.array_index)
        \o encode_closing_tag(1)

\* ReadProperty::encode
ReadProperty_encode(req) ==
    encode_context_object_id(0, req.object_id)
        \o encode_context_enumerated(1, req.property_id)
        \o (IF req.array_index # BACNET_ARRAY_ALL
            THEN encode_context_unsigned(2, req.array_index) ELSE <<>>)

----------------------------------------------------------------------------
(* application_protocol/application_pdu.rs *)

ApduType_ConfirmedServiceRequest == 0

ApduType_UnconfirmedServiceRequest == 1

ApduType_ComplexAck == 3

\* impl From<u8> for ApduType : panics above 7
ApduType_from(value) == IF value <= 7 THEN [st |-> "ok", val |-> value] ELSE [st |-> "panic", val |-> value]

ConfirmedServiceChoice_ReadProperty == 12

ConfirmedServiceChoice_ReadPropMultiple == 14

\* impl From<u8> for ConfirmedServiceChoice : panics above 34
ConfirmedServiceChoice_from(value) ==
    IF value <= 34 THEN [st |-> "ok", val |-> value] ELSE [st |-> "panic", val |-> value]

UnconfirmedServiceChoice_IAm == 0

UnconfirmedServiceChoice_WhoIs == 8

\* impl From<u8> for UnconfirmedServiceChoice : panics above 15
UnconfirmedServiceChoice_from(value) ==
    IF value <= 15 THEN [st |-> "ok", val |-> value] ELSE [st |-> "panic", val |-> value]

PduFlags_SegmentedResponseAccepted == 2

\* enum MaxSegments (preshifted by 4 bits) and enum MaxAdpu
MaxSegmentsValues == {0, 16, 32, 48, 64, 80, 96, 112}

MaxSegments_0 == 0

MaxAdpuValues == {0, 1, 2, 3, 4, 5}

\* the calls of the service arm of ConfirmedRequest::encode
ConfirmedService_encode(service) ==
    IF service.kind = "ReadProperty"
    THEN <<Push(ConfirmedServiceChoice_ReadProperty)>> \o ReadProperty_encode(service)
    ELSE <<Push(ConfirmedServiceChoice_ReadPropMultiple)>> \o ReadPropertyMultiple_encode(service)

\* a slip in the flag: segmented-response-accepted set for the zero sentinel
ConfirmedRequest_encode_flag_inverted(req) ==
    LET max_segments_flag ==
            IF req.max_segments = MaxSegments_0 THEN PduFlags_SegmentedResponseAccepted ELSE 0
        control == BitOr(Shl8(ApduType_ConfirmedServiceRequest, 4), max_segments_flag)
    IN  <<Push(control), Push(BitOr(req.max_segments, req.max_adpu)), Push(req.invoke_id)>>
            \o ConfirmedService_encode(req.service)

\* ConfirmedRequest::encode
ConfirmedRequest_encode(req) ==
    LET max_segments_flag ==
            IF req.max_segments = MaxSegments_0 THEN 0 ELSE PduFlags_SegmentedResponseAccepted
        control == BitOr(Shl8(ApduType_ConfirmedServiceRequest, 4), max_segments_flag)
    IN  <<Push(control), Push(BitOr(req.max_segments, req.max_adpu)), Push(req.invoke_id)>>
            \o ConfirmedService_encode(req.service)

\* IAm::decode, WhoIs::decode, ReadPropertyAck::decode : the service body
\* is the rest of the visible region
ServiceBody_decode(r, buf) ==
    Then(Reader_read_slice(r, IF r.end > r.index THEN r.end - r.index ELSE 0, buf), LAMBDA x :
    ValResult(x.st, x.rd, x.val))

ApduResult(st, r, kind, val) == [st |-> st, rd |-> r, kind |-> kind, val |-> val]

\* ConfirmedRequest::decode : unimplemented!()
ConfirmedRequest_decode(r, buf) == ApduResult("panic", r, "ConfirmedRequest", <<>>)

\* UnconfirmedRequest::decode
UnconfirmedRequest_decode(r, buf) ==
    Then(Reader_read_byte(r, buf), LAMBDA b :
    IF b.st # "ok" THEN ApduResult("panic", b.rd, "UnconfirmedRequest", <<>>)
    ELSE Then(UnconfirmedServiceChoice_from(b.val), LAMBDA choice :
    IF choice.st # "ok" THEN ApduResult("panic", b.rd, "UnconfirmedRequest", <<>>)
    ELSE IF choice.val \in {UnconfirmedServiceChoice_IAm, UnconfirmedServiceChoice_WhoIs}
    THEN Then(ServiceBody_decode(b.rd, buf), LAMBDA a :
         ApduResult(a.st, a.rd, "UnconfirmedRequest", [choice |-> choice.val, body |-> a.val]))
    ELSE ApduResult("panic", b.rd, "UnconfirmedRequest", <<>>)))

\* ComplexAck::decode
ComplexAck_decode(r, buf) ==
    Then(Reader_read_byte(r, buf), LAMBDA i :
    IF i.st # "ok" THEN ApduResult("panic", i.rd, "ComplexAck", <<>>)
    ELSE Then(Reader_read_byte(i.rd, buf), LAMBDA b :
    IF b.st # "ok" THEN ApduResult("panic", b.rd, "ComplexAck", <<>>)
    ELSE Then(ConfirmedServiceChoice_from(b.val), LAMBDA choice :
    IF choice.st # "ok" THEN ApduResult("panic", b.rd, "ComplexAck", <<>>)
    ELSE IF choice.val = ConfirmedServiceChoice_ReadProperty
    THEN Then(ServiceBody_decode(b.rd, buf), LAMBDA a :
         ApduResult(a.st, a.rd, "ComplexAck",
                    [invoke_id |-> i.val, choice |-> choice.val, body |-> a.val]))
    ELSE IF choice.val = ConfirmedServiceChoice_ReadPropMultiple
    THEN Then(ReadPropertyMultipleAck_decode(b.rd, buf), LAMBDA a :
         ApduResult(a.st, a.rd, "ComplexAck",
                    [invoke_id |-> i.val, choice |-> choice.val, body |-> a.val]))
    ELSE ApduResult("panic", b.rd, "ComplexAck", <<>>))))

\* ApplicationPdu::decode
ApplicationPdu_decode(r, buf) ==
    Then(Reader_read_byte(r, buf), LAMBDA b :
    IF b.st # "ok" THEN ApduResult("panic", b.rd, "none", <<>>)
    ELSE Then(ApduType_from(b.val \div 16), LAMBDA pdu_type :
    IF pdu_type.st # "ok" THEN ApduResult("panic", b.rd, "none", <<>>)
    ELSE IF pdu_type.val = ApduType_ConfirmedServiceRequest THEN ConfirmedRequest_decode(b.rd, buf)
    ELSE IF pdu_type.val = ApduType_UnconfirmedServiceRequest
    THEN UnconfirmedRequest_decode(b.rd, buf)
    ELSE IF pdu_type.val = ApduType_ComplexAck THEN ComplexAck_decode(b.rd, buf)
    ELSE ApduResult("panic", b.rd, "none", <<>>)))

----------------------------------------------------------------------------
(* Application-PDU scenario: either a received byte sequence is decoded,   *)
(* or a confirmed request is encoded into a fresh writer.                  *)

\* service-choice and invoke-id bytes tried on the wire
ChoiceBytes == {0, 8, 12, 13, 14, 15, 16, 26, 34, 35, 255}

\* a well-formed ack body of one object with one real-valued property
ApduBody == <<12, 0, 0, 0, 1, 30, 41, 85, 78, 68, 66, 0, 0, 0, 79, 31>>

ApduWires ==
    {<<t * 16 + f, x, y>> \o body :
        t \in 0..15, f \in {0, 2}, x \in ChoiceBytes, y \in ChoiceBytes,
        body \in {<<>>, ApduBody}}
      \cup {<<t * 16>> : t \in 0..15} \cup {<<>>}

\* device 20088: (8 << 22) | 20088
ObjectIds == {[hi |-> 512, lo |-> 20088]}

PropertyIds == {W(PropPresentValue), W(PropLogBuffer)}

ArrayIndexes == {BACNET_ARRAY_ALL, W(300)}

ConfirmedServices ==
    [kind : {"ReadProperty"}, object_id : ObjectIds, property_id : PropertyIds,
     array_index : ArrayIndexes]
      \cup
    [kind : {"ReadPropertyMultiple"}, object_id : ObjectIds,
     property_ids : SeqsUpTo(PropertyIds, MaxPropertyIds), array_index : ArrayIndexes]

ConfirmedRequests ==
    [max_segments : MaxSegmentsValues, max_adpu : MaxAdpuValues, invoke_id : {0, 7, 255},
     service : ConfirmedServices]

ApduInit ==
    /\ \/ pc = "apdu_decode" /\ wire \in ApduWires /\ input = <<>>
       \/ pc = "apdu_encode" /\ wire = <<>> /\ input \in ConfirmedRequests
    /\ writer = Writer_new(EncodeCap)
    /\ written = <<>>
    /\ reader = Reader_new_with_len(Len(wire))
    /\ op = NoOp
    /\ touched = {}
    /\ acc = <<>>
    /\ outcome = NoOutcome

ApduDecode ==
    /\ pc = "apdu_decode"
    /\ Then(ApplicationPdu_decode(reader, wire), LAMBDA d :
        /\ reader' = d.rd
        /\ outcome' = [st |-> d.st, val |-> [kind |-> d.kind, pdu |-> d.val]])
    /\ op' = Call("ApplicationPdu::decode", <<>>, reader)
    /\ pc' = "apdu_decoded"
    /\ UNCHANGED <<input, wire, writer, written, touched, acc>>

ApduEncode ==
    /\ pc = "apdu_encode"
    /\ Then(WriteAll(writer, ConfirmedRequest_encode(input)), LAMBDA e :
        /\ writer' = e.w
        /\ written' = Writer_to_bytes(e.w)
        /\ outcome' = [st |-> e.st, val |-> <<>>])
    /\ op' = Call("ConfirmedRequest::encode", <<>>, writer)
    /\ pc' = "apdu_encoded"
    /\ UNCHANGED <<input, wire, reader, touched, acc>>

ApduNext == ApduDecode \/ ApduEncode

SpecApdu == ApduInit /\ [][ApduNext]_vars

\* the PDU-type nibble, the confirmed-ack service choice or the
\* unconfirmed service choice of the wire is unknown or not serviced
ApduUnserviced(bytes) ==
    /\ Len(bytes) >= 1
    /\ LET t == bytes[1] \div 16 IN
        \/ t = 2
        \/ t >= 4
        \/ /\ t = ApduType_UnconfirmedServiceRequest
           /\ Len(bytes) >= 2
           /\ bytes[2] \notin {UnconfirmedServiceChoice_IAm, UnconfirmedServiceChoice_WhoIs}
        \/ /\ t = ApduType_ComplexAck
           /\ Len(bytes) >= 3
           /\ bytes[3] \notin {ConfirmedServiceChoice_ReadProperty,
                               ConfirmedServiceChoice_ReadPropMultiple}

\* C8: decoding bytes whose PDU type, confirmed service choice or
\* unconfirmed service choice is unknown or not serviced ends in a typed
\* failure returned to the caller, never in a process abort.
C8_UnservicedIsTypedFailure ==
    pc = "apdu_decoded" /\ ApduUnserviced(wire) => outcome.st = "err"

\* C9: ConfirmedRequest::encode writes the control byte (high nibble 0, low
\* nibble 0b0010 exactly when max_segments is not the zero sentinel), then
\* max_segments | max_apdu, then invoke_id, then the service choice (12 for
\* ReadProperty, 14 for ReadPropertyMultiple), then the service body.
C9_ConfirmedRequestLayout ==
    pc = "apdu_encoded" =>
        LET b == Writer_to_bytes(writer)
            body == IF input.service.kind = "ReadProperty"
                    THEN CallBytes(ReadProperty_encode(input.service))
                    ELSE CallBytes(ReadPropertyMultiple_encode(input.service))
        IN  /\ outcome.st = "ok"
            /\ Len(b) = 4 + Len(body)
            /\ b[1] \div 16 = 0
            /\ b[1] % 16 = (IF input.max_segments = 0 THEN 0 ELSE 2)
            /\ b[2] = input.max_segments + input.max_adpu
            /\ b[3] = input.invoke_id
            /\ b[4] = (IF input.service.kind = "ReadProperty" THEN 12 ELSE 14)
            /\ SubSeq(b, 5, Len(b)) = body

\* a ReadPropertyMultiple request with the zero sentinel and the most
\* property ids was encoded, and its control byte is 0
C9_Witness ==
    /\ pc = "apdu_encoded"
    /\ outcome.st = "ok"
    /\ input.max_segments = 0
    /\ input.service.kind = "ReadPropertyMultiple"
    /\ Len(input.service.property_ids) = MaxPropertyIds
    /\ Writer_to_bytes(writer)[1] = 0

----------------------------------------------------------------------------
(* common/tag.rs as used by the ReadRange codec: the tag number also says  *)
(* whether a context tag is an opening or a closing marker, and a tag that *)
(* is not the expected one is a failure returned to the caller.            *)

FieldResult(st, r, error, val) == [st |-> st, rd |-> r, error |-> error, val |-> val]

FieldFail(x, error) == FieldResult(IF x.st = "ok" THEN "err" ELSE x.st, x.rd, error, <<>>)

\* the variant of TagNumber a decoded tag has
TagKind(t) ==
    IF t.class = "ctx" /\ is_opening_tag(t.byte0) THEN "open"
    ELSE IF t.class = "ctx" /\ is_closing_tag(t.byte0) THEN "close"
    ELSE t.class

TagIs(t, kind, num) == TagKind(t) = kind /\ t.num = num

\* Tag::decode_expected : the tag, or a failure when it is another tag
Tag_decode_expected(r, buf, kind, num) ==
    Then(Tag_decode(r, buf), LAMBDA t :
    IF t.st # "ok" THEN FieldFail(t, "none")
    ELSE IF ~TagIs(t, kind, num) THEN FieldFail(t, "ExpectedTag")
    ELSE FieldResult("ok", t.rd, "none", t))

\* decode_context_object_id
decode_context_object_id(r, buf, tag_num) ==
    Then(Tag_decode_expected(r, buf, "ctx", tag_num), LAMBDA t :
    IF t.st # "ok" THEN t
    ELSE Then(ObjectId_decode(t.rd, t.val.value, buf), LAMBDA o :
    IF o.st # "ok" THEN FieldFail(o, "InvalidValue")
    ELSE FieldResult("ok", o.rd, "none", U32FromBE(o.val))))

\* decode_context_property_id
decode_context_property_id(r, buf, tag_num) ==
    Then(Tag_decode_expected(r, buf, "ctx", tag_num), LAMBDA t :
    IF t.st # "ok" THEN t
    ELSE Then(decode_unsigned(t.rd, t.val.value, buf), LAMBDA p :
    IF p.st # "ok" THEN FieldFail(p, "none")
    ELSE FieldResult("ok", p.rd, "none", U32OfBytes(p.val))))

\* Date::encode and Time::encode : four bytes each
Date_encode(date) == <<Extend(date)>>

Time_encode(time) == <<Extend(time)>>

----------------------------------------------------------------------------
(* application_protocol/services/read_range.rs : ReadRange *)

ReadRange_OBJECT_ID_TAG == 0

ReadRange_PROPERTY_ID_TAG == 1

ReadRange_ARRAY_INDEX_TAG == 2

ReadRange_BY_POSITION_TAG == 3

ReadRange_BY_SEQUENCE_TAG == 6

ReadRange_BY_TIME_TAG == 7

ByPosition(index, count) == [kind |-> "ByPosition", index |-> index, count |-> count]

BySequence(sequence_num, count) ==
    [kind |-> "BySequence", sequence_num |-> sequence_num, count |-> count]

ByTime(date, time, count) == [kind |-> "ByTime", date |-> date, time |-> time, count |-> count]

AllItems == [kind |-> "All"]

\* ReadRange::encode
ReadRange_encode(req) ==
    encode_context_object_id(ReadRange_OBJECT_ID_TAG, req.object_id)
        \o encode_context_enumerated(ReadRange_PROPERTY_ID_TAG, req.property_id)
        \o (IF req.array_index # BACNET_ARRAY_ALL
            THEN encode_context_unsigned(ReadRange_ARRAY_INDEX_TAG, req.array_index)
            ELSE <<>>)
        \o (IF req.request_type.kind = "ByPosition"
            THEN encode_opening_tag(ReadRange_BY_POSITION_TAG)
                    \o encode_application_unsigned(req.request_type.index)
                    \o encode_application_signed(req.request_type.count)
                    \o encode_closing_tag(ReadRange_BY_POSITION_TAG)
            ELSE IF req.request_type.kind = "BySequence"
            THEN encode_opening_tag(ReadRange_BY_SEQUENCE_TAG)
                    \o encode_application_unsigned(req.request_type.sequence_num)
                    \o encode_application_signed(req.request_type.count)
                    \o encode_closing_tag(ReadRange_BY_SEQUENCE_TAG)
            ELSE IF req.request_type.kind = "ByTime"
            THEN encode_opening_tag(ReadRange_BY_TIME_TAG)
                    \o Date_encode(req.request_type.date)
                    \o Time_encode(req.request_type.time)
                    \o encode_application_signed(req.request_type.count)
                    \o encode_closing_tag(ReadRange_BY_TIME_TAG)
            ELSE <<>>)

\* a slip in the count arm: the sign of a signed count is not looked at
ReadRange_decode_count_sign_ignored(r, buf) ==
    Then(Tag_decode(r, buf), LAMBDA count_tag :
    IF count_tag.st # "ok" THEN FieldFail(count_tag, "none")
    ELSE IF TagIs(count_tag, "app", ApplicationTagNumber_UnsignedInt)
    THEN Then(decode_unsigned(count_tag.rd, count_tag.value, buf), LAMBDA c :
         IF c.st # "ok" THEN FieldFail(c, "none")
         ELSE FieldResult("ok", c.rd, "none", U32OfBytes(c.val)))
    ELSE IF TagIs(count_tag, "app", ApplicationTagNumber_SignedInt)
    THEN Then(decode_signed(count_tag.rd, count_tag.value, buf), LAMBDA c :
         IF c.st # "ok" THEN FieldFail(c, "none")
         ELSE FieldResult("ok", c.rd, "none", c.val.bits))
    ELSE FieldFail(count_tag, "TagNotSupported"))

\* the count arm of ReadRange::decode : unsigned, or signed and not negative
ReadRange_decode_count(r, buf) ==
    Then(Tag_decode(r, buf), LAMBDA count_tag :
    IF count_tag.st # "ok" THEN FieldFail(count_tag, "none")
    ELSE IF TagIs(count_tag, "app", ApplicationTagNumber_UnsignedInt)
    THEN Then(decode_unsigned(count_tag.rd, count_tag.value, buf), LAMBDA c :
         IF c.st # "ok" THEN FieldFail(c, "none")
         ELSE FieldResult("ok", c.rd, "none", U32OfBytes(c.val)))
    ELSE IF TagIs(count_tag, "app", ApplicationTagNumber_SignedInt)
    THEN Then(decode_signed(count_tag.rd, count_tag.value, buf), LAMBDA c :
         IF c.st # "ok" THEN FieldFail(c, "none")
         ELSE IF c.val.neg THEN FieldFail(c, "InvalidValue")
         ELSE FieldResult("ok", c.rd, "none", c.val.bits))
    ELSE FieldFail(count_tag, "TagNotSupported"))

\* the ContextSpecificOpening(BY_POSITION_TAG) arm of ReadRange::decode
ReadRange_decode_by_position(r, buf) ==
    Then(Tag_decode_expected(r, buf, "app", ApplicationTagNumber_UnsignedInt),
         LAMBDA index_tag :
    IF index_tag.st # "ok" THEN index_tag
    ELSE Then(decode_unsigned(index_tag.rd, index_tag.val.value, buf), LAMBDA index :
    IF index.st # "ok" THEN FieldFail(index, "none")
    ELSE Then(ReadRange_decode_count(index.rd, buf), LAMBDA count :
    IF count.st # "ok" THEN count
    ELSE Then(Tag_decode_expected(count.rd, buf, "close", ReadRange_BY_POSITION_TAG),
              LAMBDA closing :
    IF closing.st # "ok" THEN closing
    ELSE FieldResult("ok", closing.rd, "none",
                     ByPosition(U32OfBytes(index.val), count.val))))))

\* the optional array index of ReadRange::decode : the index and the tag
\* that follows it, or the sentinel and the tag already read
ReadRange_decode_array_index(tag, buf) ==
    IF TagIs(tag, "ctx", ReadRange_ARRAY_INDEX_TAG)
    THEN Then(decode_unsigned(tag.rd, tag.value, buf), LAMBDA v :
         IF v.st # "ok" THEN FieldFail(v, "none")
         ELSE Then(Tag_decode(v.rd, buf), LAMBDA next :
         IF next.st # "ok" THEN FieldFail(next, "none")
         ELSE FieldResult("ok", next.rd, "none",
                          [array_index |-> U32OfBytes(v.val), tag |-> next])))
    ELSE FieldResult("ok", tag.rd, "none", [array_index |-> BACNET_ARRAY_ALL, tag |-> tag])

\* ReadRange::decode
ReadRange_decode(r, buf) ==
    Then(decode_context_object_id(r, buf, ReadRange_OBJECT_ID_TAG), LAMBDA object_id :
    IF object_id.st # "ok" THEN object_id
    ELSE Then(decode_context_property_id(object_id.rd, buf, ReadRange_PROPERTY_ID_TAG),
              LAMBDA property_id :
    IF property_id.st # "ok" THEN property_id
    ELSE Then(Tag_decode(property_id.rd, buf), LAMBDA first :
    IF first.st # "ok" THEN FieldFail(first, "none")
    ELSE Then(ReadRange_decode_array_index(first, buf), LAMBDA a :
    IF a.st # "ok" THEN a
    ELSE IF TagIs(a.val.tag, "open", ReadRange_BY_POSITION_TAG)
    THEN Then(ReadRange_decode_by_position(a.rd, buf), LAMBDA request_type :
         IF request_type.st # "ok" THEN request_type
         ELSE FieldResult("ok", request_type.rd, "none",
                          [object_id |-> object_id.val, property_id |-> property_id.val,
                           array_index |-> a.val.array_index,
                           request_type |-> request_type.val]))
    ELSE FieldFail(a, "TagNotSupported")))))

----------------------------------------------------------------------------
(* ReadRange scenario: a request is encoded into a fresh writer and the    *)
(* written bytes are decoded with a reader over exactly those bytes.       *)

U32Samples ==
    {W(0), W(1), W(255), W(256), W(65536), [hi |-> 32767, lo |-> 65535],
     [hi |-> 32768, lo |-> 0], U32_MAX}

\* 2024-01-31, a Wednesday, and 13:45:10.00
SampleDate == <<124, 1, 31, 3>>

SampleTime == <<13, 45, 10, 0>>

ReadRangeSelectors ==
    {ByPosition(i, c) : i \in U32Samples, c \in U32Samples}
        \cup {BySequence(n, c) : n \in U32Samples, c \in U32Samples}
        \cup {ByTime(SampleDate, SampleTime, c) : c \in U32Samples}
        \cup {AllItems}

ReadRangeRequests ==
    [object_id : ObjectIds, property_id : PropertyIds,
     array_index : {BACNET_ARRAY_ALL, W(0), W(300)}, request_type : ReadRangeSelectors]

RangeInit ==
    /\ pc = "range"
    /\ input \in ReadRangeRequests
    /\ wire = <<>>
    /\ writer = Writer_new(EncodeCap)
    /\ written = <<>>
    /\ reader = NoReader
    /\ op = NoOp
    /\ touched = {}
    /\ acc = <<>>
    /\ outcome = NoOutcome

RangeEncode ==
    /\ pc = "range"
    /\ Then(WriteAll(writer, ReadRange_encode(input)), LAMBDA e :
        /\ writer' = e.w
        /\ written' = Writer_to_bytes(e.w)
        /\ wire' = Writer_to_bytes(e.w)
        /\ outcome' = [st |-> e.st, error |-> "none", val |-> <<>>])
    /\ op' = Call("ReadRange::encode", <<>>, writer)
    /\ pc' = "range_encoded"
    /\ UNCHANGED <<input, reader, touched, acc>>

RangeDecode ==
    /\ pc = "range_encoded"
    /\ outcome.st = "ok"
    /\ Then(ReadRange_decode(Reader_new_with_len(Len(wire)), wire), LAMBDA d :
        /\ reader' = d.rd
        /\ outcome' = [st |-> d.st, error |-> d.error, val |-> d.val])
    /\ op' = Call("ReadRange::decode", <<>>, Reader_new_with_len(Len(wire)))
    /\ pc' = "range_decoded"
    /\ UNCHANGED <<input, wire, writer, written, touched, acc>>

RangeNext == RangeEncode \/ RangeDecode

SpecRange == RangeInit /\ [][RangeNext]_vars

\* C10: for every ReadRange request (any object id, property id, array
\* index including the sentinel, each of the four selectors, any u32 index,
\* sequence number and count) encode followed by decode over the written
\* bytes succeeds and returns a request equal to the original in
\* object_id, property_id, array_index and selector.
C10_ReadRangeRoundTrip ==
    pc = "range_decoded" => outcome.st = "ok" /\ outcome.val = input

----------------------------------------------------------------------------
(* application_protocol/primitives/data_value.rs : Date, Time, BitString  *)
(* as the ReadRange codec uses them.  A scalar codec is handed the value  *)
(* of the tag that precedes it and reads that many bytes.                 *)

ApplicationTagNumber_Date == 10

ApplicationTagNumber_Time == 11

\* Date::LEN and Time::LEN
Date_LEN == 4

Time_LEN == 4

\* Date::decode and Time::decode : four bytes each
Date_decode(r, buf) ==
    Then(Reader_read_bytes(r, Date_LEN, buf), LAMBDA x :
    IF x.st # "ok" THEN FieldFail(x, "none") ELSE FieldResult("ok", x.rd, "none", x.val))

Time_decode(r, buf) ==
    Then(Reader_read_bytes(r, Time_LEN, buf), LAMBDA x :
    IF x.st # "ok" THEN FieldFail(x, "none") ELSE FieldResult("ok", x.rd, "none", x.val))

\* a bit string: the count of unused bits of the last byte, then the bytes
BitString(unused_bits, bits) == [unused_bits |-> unused_bits, bits |-> bits]

\* BitString::encode_context : a context tag whose value is the number of
\* bytes that follow, the unused-bits byte, the bytes
BitString_encode_context(value, tag_num) ==
    <<Extend(Tag_encode_bytes(CtxTag(tag_num, W(1 + Len(value.bits))))),
      Push(value.unused_bits), Extend(value.bits)>>

\* BitString::decode(len, reader, buf) : the unused-bits byte, then
\* len - 1 bytes; `len - 1` of a zero length overflows
BitString_decode(len, r, buf) ==
    IF len = W(0) THEN FieldResult("panic", r, "none", <<>>)
    ELSE Then(Reader_read_byte(r, buf), LAMBDA u :
    IF u.st # "ok" THEN FieldFail(u, "none")
    ELSE Then(Reader_read_slice(u.rd, U32AsUsize(len) - 1, buf), LAMBDA b :
    IF b.st # "ok" THEN FieldFail(b, "none")
    ELSE FieldResult("ok", b.rd, "none", BitString(u.val, b.val))))

----------------------------------------------------------------------------
(* application_protocol/services/read_range.rs : ReadRangeItems *)

ReadRangeItems_DATE_TIME_TAG == 0

ReadRangeItems_VALUE_TAG == 1

ReadRangeItems_STATUS_FLAGS_TAG == 2

ReadRangeValueType_Real == 2

ReadRangeValueType_Any == 10

\* impl TryFrom<u8> for ReadRangeValueType : Ok for 0..10, Err(x) otherwise
ReadRangeValueType_try_from(value) ==
    IF value <= ReadRangeValueType_Any
    THEN [st |-> "ok", val |-> value] ELSE [st |-> "err", val |-> value]

\* ReadRangeItem { date, time, value: ReadRangeValue::Real, status_flags };
\* the real is kept as its four big-endian bytes
ReadRangeItem(date, time, value, status_flags) ==
    [date |-> date, time |-> time, value |-> value, status_flags |-> status_flags]

\* one pass of the `for item in self.items` loop of ReadRangeItems::encode
ReadRangeItem_encode(item) ==
    encode_opening_tag(ReadRangeItems_DATE_TIME_TAG)
        \o <<Extend(Tag_encode_bytes(AppTag(ApplicationTagNumber_Date, W(Date_LEN))))>>
        \o Date_encode(item.date)
        \o <<Extend(Tag_encode_bytes(AppTag(ApplicationTagNumber_Time, W(Time_LEN))))>>
        \o Time_encode(item.time)
        \o encode_closing_tag(ReadRangeItems_DATE_TIME_TAG)
        \o encode_opening_tag(ReadRangeItems_VALUE_TAG)
        \o <<Extend(Tag_encode_bytes(CtxTag(ReadRangeValueType_Real, W(4)))),
             Extend(item.value)>>
        \o encode_closing_tag(ReadRangeItems_VALUE_TAG)
        \o BitString_encode_context(item.status_flags, ReadRangeItems_STATUS_FLAGS_TAG)

\* ReadRangeItems::encode
RECURSIVE ReadRangeItems_encode(_)
ReadRangeItems_encode(items) ==
    IF items = <<>> THEN <<>>
    ELSE ReadRangeItem_encode(Head(items)) \o ReadRangeItems_encode(Tail(items))

\* ReadRangeItems::new_from_buf : the reader of the cursor
ReadRangeItems_new_from_buf(buf) == [index |-> 0, end |-> Len(buf)]

\* the date-time pair of ReadRangeItems::next_internal
ReadRangeItems_decode_date_time(r, buf) ==
    Then(Tag_decode_expected(r, buf, "open", ReadRangeItems_DATE_TIME_TAG), LAMBDA o :
    IF o.st # "ok" THEN o
    ELSE Then(Tag_decode_expected(o.rd, buf, "app", ApplicationTagNumber_Date), LAMBDA dt :
    IF dt.st # "ok" THEN dt
    ELSE Then(Date_decode(dt.rd, buf), LAMBDA date :
    IF date.st # "ok" THEN date
    ELSE Then(Tag_decode_expected(date.rd, buf, "app", ApplicationTagNumber_Time), LAMBDA tt :
    IF tt.st # "ok" THEN tt
    ELSE Then(Time_decode(tt.rd, buf), LAMBDA time :
    IF time.st # "ok" THEN time
    ELSE Then(Tag_decode_expected(time.rd, buf, "close", ReadRangeItems_DATE_TIME_TAG),
              LAMBDA c :
    IF c.st # "ok" THEN c
    ELSE FieldResult("ok", c.rd, "none", [date |-> date.val, time |-> time.val])))))))

\* the value of ReadRangeItems::next_internal : the value-kind tag, which
\* is kept, and the real it announces
ReadRangeItems_decode_value(r, buf) ==
    Then(Tag_decode_expected(r, buf, "open", ReadRangeItems_VALUE_TAG), LAMBDA o :
    IF o.st # "ok" THEN o
    ELSE Then(Tag_decode(o.rd, buf), LAMBDA tag :
    IF tag.st # "ok" THEN FieldFail(tag, "none")
    ELSE IF TagKind(tag) # "ctx" THEN FieldFail(tag, "TagNotSupported")
    ELSE IF ReadRangeValueType_try_from(tag.num).st # "ok" THEN FieldFail(tag, "InvalidVariant")
    ELSE IF tag.num # ReadRangeValueType_Real THEN FieldFail(tag, "Unimplemented")
    ELSE Then(Reader_read_bytes(tag.rd, 4, buf), LAMBDA value :
    IF value.st # "ok" THEN FieldFail(value, "none")
    ELSE Then(Tag_decode_expected(value.rd, buf, "close", ReadRangeItems_VALUE_TAG),
              LAMBDA c :
    IF c.st # "ok" THEN c
    ELSE FieldResult("ok", c.rd, "none", [value |-> value.val, tag |-> tag])))))

\* ReadRangeItems::next_internal
ReadRangeItems_next_internal(r, buf) ==
    Then(ReadRangeItems_decode_date_time(r, buf), LAMBDA dt :
    IF dt.st # "ok" THEN dt
    ELSE Then(ReadRangeItems_decode_value(dt.rd, buf), LAMBDA v :
    IF v.st # "ok" THEN v
    ELSE Then(Tag_decode_expected(v.rd, buf, "ctx", ReadRangeItems_STATUS_FLAGS_TAG),
              LAMBDA st :
    IF st.st # "ok" THEN st
    ELSE Then(BitString_decode(v.val.tag.value, st.rd, buf), LAMBDA status_flags :
    IF status_flags.st # "ok" THEN status_flags
    ELSE FieldResult("ok", status_flags.rd, "none",
                     ReadRangeItem(dt.val.date, dt.val.time, v.val.value,
                                   status_flags.val))))))

\* impl Iterator for ReadRangeItems : next; status "none" is None
ReadRangeItems_next(r, buf) ==
    IF Reader_eof(r) THEN FieldResult("none", r, "none", <<>>)
    ELSE ReadRangeItems_next_internal(r, buf)

----------------------------------------------------------------------------
(* ReadRangeItems scenario: items are encoded into a region; the region    *)
(* arrives as written, with one byte changed, or cut short; a cursor is    *)
(* built over it and pulled from repeatedly.  `acc` is the sequence of     *)
(* what the pulls returned.                                                *)

\* reals 50.0 and 0.0
ItemValues == {<<66, 72, 0, 0>>, <<0, 0, 0, 0>>}

\* status flags (four bits in one byte) and a bit string of three bytes
ItemFlags == {BitString(4, <<128>>), BitString(0, <<1, 2, 3>>)}

Items == {ReadRangeItem(SampleDate, SampleTime, v, f) : v \in ItemValues, f \in ItemFlags}

\* bytes a changed byte of the region is set to
CorruptBytes == {0, 14, 15, 30, 44, 42, 47, 255}

ItemsInit ==
    /\ pc = "items"
    /\ input \in SeqsUpTo(Items, MaxItems)
    /\ wire = <<>>
    /\ writer = Writer_new(Len(CallBytes(ReadRangeItems_encode(input))))
    /\ written = <<>>
    /\ reader = NoReader
    /\ op = NoOp
    /\ touched = {}
    /\ acc = <<>>
    /\ outcome = NoOutcome

ItemsEncode ==
    /\ pc = "items"
    /\ Then(WriteAll(writer, ReadRangeItems_encode(input)), LAMBDA e :
        /\ writer' = e.w
        /\ written' = Writer_to_bytes(e.w)
        /\ wire' = Writer_to_bytes(e.w)
        /\ outcome' = [st |-> e.st, error |-> "none", val |-> <<>>])
    /\ op' = Call("ReadRangeItems::encode", <<>>, writer)
    /\ pc' = "items_encoded"
    /\ UNCHANGED <<input, reader, touched, acc>>

\* the cursor is built over the region, whatever the region holds
ItemsOpenOver(region) ==
    /\ wire' = region
    /\ reader' = ReadRangeItems_new_from_buf(region)
    /\ op' = Call("ReadRangeItems::new_from_buf", <<>>, reader)
    /\ pc' = "items_pull"
    /\ UNCHANGED <<input, writer, written, touched, acc, outcome>>

ItemsOpen ==
    /\ pc = "items_encoded"
    /\ ItemsOpenOver(wire)

ItemsCorrupt ==
    /\ pc = "items_encoded"
    /\ \E k \in 1..Len(wire), b \in CorruptBytes :
        /\ wire[k] # b
        /\ ItemsOpenOver([wire EXCEPT ![k] = b])

ItemsTruncate ==
    /\ pc = "items_encoded"
    /\ \E k \in 0..(Len(wire) - 1) : ItemsOpenOver(SubSeq(wire, 1, k))

ItemsPull ==
    /\ pc = "items_pull"
    /\ Len(acc) < MaxItems + 2
    /\ Then(ReadRangeItems_next(reader, wire), LAMBDA p :
        /\ reader' = p.rd
        /\ touched' = reader.index .. (p.rd.index - 1)
        /\ outcome' = [st |-> p.st, error |-> p.error, val |-> p.val]
        /\ acc' = Append(acc, [st |-> p.st, error |-> p.error, val |-> p.val])
        /\ pc' = IF p.st = "panic" THEN "items_aborted" ELSE pc)
    /\ op' = Call("ReadRangeItems::next", <<>>, reader)
    /\ UNCHANGED <<input, wire, writer, written>>

ItemsNext == ItemsEncode \/ ItemsOpen \/ ItemsCorrupt \/ ItemsTruncate \/ ItemsPull

SpecItems == ItemsInit /\ [][ItemsNext]_vars

C14_PullStaysInRegion ==
    pc \in {"items_pull", "items_aborted"} =>
        /\ reader.end = Len(wire)
        /\ reader.index <= Len(wire)
        /\ \A o \in touched : 0 <= o /\ o < Len(wire)

\* a pull over a region that does not hold what was written failed after
\* reading part of it, and an earlier pull had succeeded
C14_Witness ==
    /\ op.name = "ReadRangeItems::next"
    /\ wire # written
    /\ Len(acc) = 2
    /\ acc[1].st = "ok"
    /\ acc[2].st \in {"err", "panic"}
    /\ touched # {}

----------------------------------------------------------------------------
(* network_protocol/data_link.rs : DataLink::encode *)

\* Option<NetworkPdu> : None, or Some(pdu) with the bytes the pdu encodes to
NoNpdu == [present |-> FALSE, bytes |-> <<>>]

SomeNpdu(bytes) == [present |-> TRUE, bytes |-> bytes]

\* NetworkPdu::encode : the bytes of the pdu, appended
NetworkPdu_encode(npdu) == <<Extend(npdu.bytes)>>

\* a slip in update_len: the header is left out of the count
DataLink_update_len_payload_only(w) ==
    IF Len(w.buf) < 4 THEN [st |-> "panic", w |-> w]
    ELSE [st |-> "ok",
          w  |-> [w EXCEPT !.buf = [i \in 1..Len(w.buf) |->
                        IF i = 3 THEN BE16((w.index - 4) % 65536)[1]
                        ELSE IF i = 4 THEN BE16((w.index - 4) % 65536)[2]
                        ELSE w.buf[i]]]]

\* update_len : `writer.index as u16`, big-endian, into writer.buf[2..4]
DataLink_update_len(w) ==
    IF Len(w.buf) < 4 THEN [st |-> "panic", w |-> w]
    ELSE [st |-> "ok",
          w  |-> [w EXCEPT !.buf = [i \in 1..Len(w.buf) |->
                        IF i = 3 THEN BE16(w.index % 65536)[1]
                        ELSE IF i = 4 THEN BE16(w.index % 65536)[2]
                        ELSE w.buf[i]]]]

\* DataLink::encode
DataLink_encode(link, w) ==
    Then(WriteAll(w, <<Push(BVLL_TYPE_BACNET_IP), Push(link.function)>>), LAMBDA h :
    IF h.st # "ok" THEN h
    ELSE IF link.function \notin {OriginalBroadcastNpdu, OriginalUnicastNpdu}
    THEN [st |-> "panic", w |-> h.w]
    ELSE Then(WriteAll(h.w, <<Extend(<<0, 0>>)>>), LAMBDA l :
    IF l.st # "ok" THEN l
    ELSE IF ~link.npdu.present THEN [st |-> "panic", w |-> l.w]
    ELSE Then(WriteAll(l.w, NetworkPdu_encode(link.npdu)), LAMBDA n :
    IF n.st # "ok" THEN n
    ELSE DataLink_update_len(n.w))))

----------------------------------------------------------------------------
(* Link-frame encode scenario: a frame is encoded with a writer that is    *)
(* fresh or already holds bytes, over a region that has room for the       *)
(* frame or falls one byte short.                                          *)

LinkFrames ==
    [function : {0, OriginalUnicastNpdu, OriginalBroadcastNpdu},
     npdu     : {SomeNpdu(NpduBytes(n)) : n \in 2..MaxNpdu} \cup {NoNpdu}]

LinkInit ==
    /\ pc = "link"
    /\ input \in LinkFrames
    /\ wire = <<>>
    /\ \E short \in {0, 1} :
        writer = Writer_new(MaxPrefill + 4 + Len(input.npdu.bytes) - short)
    /\ written = <<>>
    /\ reader = NoReader
    /\ op = NoOp
    /\ touched = {}
    /\ acc = <<>>
    /\ outcome = NoOutcome

\* the caller writes a byte of its own before the frame
LinkPrefill ==
    /\ pc = "link"
    /\ writer.index < MaxPrefill
    /\ Then(Writer_push(writer, 170), LAMBDA r :
        /\ writer' = r.w
        /\ written' = IF r.st = "ok" THEN Append(written, 170) ELSE written
        /\ outcome' = [st |-> r.st])
    /\ op' = Call("push", <<170>>, writer)
    /\ UNCHANGED <<pc, input, wire, reader, touched, acc>>

LinkEncode ==
    /\ pc = "link"
    /\ Then(DataLink_encode(input, writer), LAMBDA e :
        /\ writer' = e.w
        /\ wire' = SubSeq(e.w.buf, writer.index + 1, e.w.index)
        /\ outcome' = [st |-> e.st])
    /\ op' = Call("DataLink::encode", <<>>, writer)
    /\ pc' = "link_encoded"
    /\ UNCHANGED <<input, written, reader, touched, acc>>

LinkNext == LinkPrefill \/ LinkEncode

SpecLink == LinkInit /\ [][LinkNext]_vars

----------------------------------------------------------------------------
(* application_protocol/services/read_range.rs : ReadRangeAck *)

ConfirmedServiceChoice_ReadRange == 26

ReadRangeAck_OBJECT_ID_TAG == 0

ReadRangeAck_PROPERTY_ID_TAG == 1

ReadRangeAck_ARRAY_INDEX_TAG == 2

ReadRangeAck_RESULT_FLAGS_TAG == 3

ReadRangeAck_ITEM_COUNT_TAG == 4

ReadRangeAck_ITEM_DATA_TAG == 5

\* ReadRangeAck::encode
ReadRangeAck_encode(ack) ==
    <<Push(ConfirmedServiceChoice_ReadRange)>>
        \o encode_context_object_id(ReadRangeAck_OBJECT_ID_TAG, ack.object_id)
        \o encode_context_enumerated(ReadRangeAck_PROPERTY_ID_TAG, ack.property_id)
        \o (IF ack.array_index # BACNET_ARRAY_ALL
            THEN encode_context_unsigned(ReadRangeAck_ARRAY_INDEX_TAG, ack.array_index)
            ELSE <<>>)
        \o BitString_encode_context(ack.result_flags, ReadRangeAck_RESULT_FLAGS_TAG)
        \o encode_context_unsigned(ReadRangeAck_ITEM_COUNT_TAG, W(ack.item_count))
        \o encode_opening_tag(ReadRangeAck_ITEM_DATA_TAG)
        \o ReadRangeItems_encode(ack.item_data)
        \o encode_closing_tag(ReadRangeAck_ITEM_DATA_TAG)

\* get_tagged_body : after the opening tag, tags are walked, a primitive
\* tag's value bytes skipped, until the closing tag that matches it
RECURSIVE TaggedBodyWalk(_, _, _, _)
TaggedBodyWalk(r, buf, tag_num, depth) ==
    Then(Tag_decode(r, buf), LAMBDA t :
    IF t.st # "ok" THEN FieldFail(t, "none")
    ELSE IF TagKind(t) = "close" /\ t.num = tag_num /\ depth = 0
    THEN FieldResult("ok", t.rd, "none", r.index)
    ELSE IF TagKind(t) = "close" THEN TaggedBodyWalk(t.rd, buf, tag_num, depth - 1)
    ELSE IF TagKind(t) = "open" THEN TaggedBodyWalk(t.rd, buf, tag_num, depth + 1)
    ELSE Then(Reader_read_slice(t.rd, U32AsUsize(t.value), buf), LAMBDA x :
         IF x.st # "ok" THEN FieldFail(x, "none")
         ELSE TaggedBodyWalk(x.rd, buf, tag_num, depth)))

\* get_tagged_body_for_tag : the bytes between opening tag tag_num and its
\* closing tag
get_tagged_body_for_tag(r, buf, tag_num) ==
    Then(Tag_decode(r, buf), LAMBDA t :
    IF t.st # "ok" THEN FieldFail(t, "none")
    ELSE IF TagKind(t) # "open" THEN FieldFail(t, "TagNotSupported")
    ELSE IF t.num # tag_num THEN FieldFail(t, "ExpectedTag")
    ELSE Then(TaggedBodyWalk(t.rd, buf, tag_num, 0), LAMBDA e :
    IF e.st # "ok" THEN e
    ELSE FieldResult("ok", e.rd, "none", SubSeq(buf, t.rd.index + 1, e.val))))

\* ReadRangeAck::decode, from the result-flags tag on
ReadRangeAck_decode_tail(tag, object_id, property_id, array_index, buf) ==
    IF ~TagIs(tag, "ctx", ReadRangeAck_RESULT_FLAGS_TAG) THEN FieldFail(tag, "ExpectedTag")
    ELSE Then(BitString_decode(tag.value, tag.rd, buf), LAMBDA flags :
    IF flags.st # "ok" THEN flags
    ELSE Then(Tag_decode_expected(flags.rd, buf, "ctx", ReadRangeAck_ITEM_COUNT_TAG), LAMBDA ct :
    IF ct.st # "ok" THEN ct
    ELSE Then(decode_unsigned(ct.rd, ct.val.value, buf), LAMBDA n :
    IF n.st # "ok" THEN FieldFail(n, "none")
    ELSE Then(IF Reader_eof(n.rd) THEN FieldResult("ok", n.rd, "none", <<>>)
              ELSE get_tagged_body_for_tag(n.rd, buf, ReadRangeAck_ITEM_DATA_TAG), LAMBDA body :
    IF body.st # "ok" THEN body
    ELSE FieldResult("ok", body.rd, "none",
            [object_id |-> object_id, property_id |-> property_id,
             array_index |-> array_index, result_flags |-> flags.val,
             item_count |-> U32OfBytes(n.val), item_data |-> body.val])))))

\* ReadRangeAck::decode
ReadRangeAck_decode(r, buf) ==
    Then(Tag_decode_expected(r, buf, "ctx", ReadRangeAck_OBJECT_ID_TAG), LAMBDA ot :
    IF ot.st # "ok" THEN ot
    ELSE Then(ObjectId_decode(ot.rd, ot.val.value, buf), LAMBDA o :
    IF o.st # "ok" THEN FieldFail(o, "InvalidValue")
    ELSE Then(decode_context_property_id(o.rd, buf, ReadRangeAck_PROPERTY_ID_TAG), LAMBDA p :
    IF p.st # "ok" THEN p
    ELSE Then(Tag_decode(p.rd, buf), LAMBDA t :
    IF t.st # "ok" THEN FieldFail(t, "none")
    ELSE IF TagIs(t, "ctx", ReadRangeAck_ARRAY_INDEX_TAG)
    THEN Then(decode_unsigned(t.rd, t.value, buf), LAMBDA a :
         IF a.st # "ok" THEN FieldFail(a, "none")
         ELSE Then(Tag_decode(a.rd, buf), LAMBDA t2 :
         IF t2.st # "ok" THEN FieldFail(t2, "none")
         ELSE ReadRangeAck_decode_tail(t2, U32FromBE(o.val), p.val, U32OfBytes(a.val), buf)))
    ELSE ReadRangeAck_decode_tail(t, U32FromBE(o.val), p.val, BACNET_ARRAY_ALL, buf)))))

----------------------------------------------------------------------------
(* Truncation scenario: a valid encoded message of one of four kinds is    *)
(* cut at an offset k below its length and the first k bytes are decoded   *)
(* with a cursor whose end is k.                                           *)

TruncLinkFrames ==
    {DataLink_encode([function |-> f, npdu |-> SomeNpdu(NpduBytes(n))], Writer_new(4 + n)).w.buf :
        f \in {OriginalUnicastNpdu, OriginalBroadcastNpdu}, n \in 2..MaxPayload}

TruncRpmAcks == {RpmAckBytes(shape, 1) : shape \in {x \in RpmShapes : RpmWellFormed(x)}}

TruncReadRanges == {CallBytes(ReadRange_encode(q)) : q \in ReadRangeRequests}

ReadRangeAcks ==
    {[object_id |-> o, property_id |-> W(PropLogBuffer), array_index |-> a,
      result_flags |-> BitString(5, <<224>>), item_count |-> Len(items), item_data |-> items] :
        o \in ObjectIds, a \in ArrayIndexes, items \in SeqsUpTo(Items, MaxItems)}

\* the ack body is what follows the service choice byte
TruncReadRangeAcks == {Tail(CallBytes(ReadRangeAck_encode(a))) : a \in ReadRangeAcks}

TruncMessages ==
    {[kind |-> "link", bytes |-> b] : b \in TruncLinkFrames}
        \cup {[kind |-> "rpm_ack", bytes |-> b] : b \in TruncRpmAcks}
        \cup {[kind |-> "read_range", bytes |-> b] : b \in TruncReadRanges}
        \cup {[kind |-> "read_range_ack", bytes |-> b] : b \in TruncReadRangeAcks}

TruncInit ==
    /\ pc = "trunc"
    /\ input \in TruncMessages
    /\ \E k \in 0..(Len(input.bytes) - 1) :
        /\ wire = SubSeq(input.bytes, 1, k)
        /\ reader = Reader_new_with_len(k)
    /\ writer = NoWriter
    /\ written = <<>>
    /\ op = NoOp
    /\ touched = {}
    /\ acc = <<>>
    /\ outcome = NoOutcome

TruncStep(name, d, error) ==
    /\ reader' = d.rd
    /\ touched' = 0 .. (d.rd.index - 1)
    /\ outcome' = [st |-> d.st, error |-> error]
    /\ op' = Call(name, <<>>, reader)
    /\ pc' = "trunc_done"
    /\ UNCHANGED <<input, wire, writer, written, acc>>

TruncLink ==
    /\ pc = "trunc" /\ input.kind = "link"
    /\ Then(DataLink_decode(reader, wire), LAMBDA d : TruncStep("DataLink::decode", d, d.error))

TruncRpmAck ==
    /\ pc = "trunc" /\ input.kind = "rpm_ack"
    /\ Then(ReadPropertyMultipleAck_decode(reader, wire), LAMBDA d :
            TruncStep("ReadPropertyMultipleAck::decode", d, "none"))

TruncReadRange ==
    /\ pc = "trunc" /\ input.kind = "read_range"
    /\ Then(ReadRange_decode(reader, wire), LAMBDA d : TruncStep("ReadRange::decode", d, d.error))

TruncReadRangeAck ==
    /\ pc = "trunc" /\ input.kind = "read_range_ack"
    /\ Then(ReadRangeAck_decode(reader, wire), LAMBDA d :
            TruncStep("ReadRangeAck::decode", d, d.error))

TruncNext == TruncLink \/ TruncRpmAck \/ TruncReadRange \/ TruncReadRangeAck

SpecTrunc == TruncInit /\ [][TruncNext]_vars

\* C18: decoding the first k bytes of a valid link frame,
\* ReadPropertyMultipleAck body, ReadRange request or ReadRangeAck body of
\* length L > k, with the cursor's end at k, fails with a BufferBounds
\* error, never succeeds, and reads no byte at an offset >= k.
C18_TruncationIsBufferBounds ==
    pc = "trunc_done" =>
        /\ outcome.st = "err"
        /\ outcome.error = "BufferBounds"
        /\ \A o \in touched : o < Len(wire)

----------------------------------------------------------------------------
(* Request encode scenario: a ReadPropertyMultiple or a ReadRange request  *)
(* is encoded into a fresh writer; the writer calls made are kept.         *)

RpmRequests ==
    [kind : {"ReadPropertyMultiple"}, object_id : ObjectIds,
     property_ids : SeqsUpTo(PropertyIds, MaxPropertyIds), array_index : ArrayIndexes]

EncInit ==
    /\ pc = "enc"
    /\ input \in RpmRequests \cup ReadRangeRequests
    /\ wire = <<>>
    /\ writer = Writer_new(EncodeCap)
    /\ written = <<>>
    /\ reader = NoReader
    /\ op = NoOp
    /\ touched = {}
    /\ acc = <<>>
    /\ outcome = NoOutcome

EncStep(name, calls) ==
    /\ Then(WriteAll(writer, calls), LAMBDA e :
        /\ writer' = e.w
        /\ written' = Writer_to_bytes(e.w)
        /\ outcome' = [st |-> e.st])
    /\ acc' = calls
    /\ op' = Call(name, <<>>, writer)
    /\ pc' = "enc_done"
    /\ UNCHANGED <<input, wire, reader, touched>>

EncRpm ==
    /\ pc = "enc" /\ "property_ids" \in DOMAIN input
    /\ EncStep("ReadPropertyMultiple::encode", ReadPropertyMultiple_encode(input))

EncReadRange ==
    /\ pc = "enc" /\ "request_type" \in DOMAIN input
    /\ EncStep("ReadRange::encode", ReadRange_encode(input))

EncNext == EncRpm \/ EncReadRange

SpecEnc == EncInit /\ [][EncNext]_vars

\* The encoders emit an opening or a closing tag as one pushed byte and
\* every other field through extend_from_slice: the pushes of a call list
\* are its opening and closing tags, in the order written.
RECURSIVE BracketsOf(_)
BracketsOf(calls) ==
    IF calls = <<>> THEN <<>>
    ELSE (IF Head(calls).call = "push"
          THEN <<[open |-> is_opening_tag(Head(calls).bytes[1]),
                  close |-> is_closing_tag(Head(calls).bytes[1]),
                  num |-> Head(calls).bytes[1] \div 16]>>
          ELSE <<>>) \o BracketsOf(Tail(calls))

\* every closing tag closes the innermost open tag, of the same number, and
\* nothing is left open at the end
RECURSIVE Nested(_, _)
Nested(brackets, open) ==
    IF brackets = <<>> THEN open = <<>>
    ELSE IF Head(brackets).open THEN Nested(Tail(brackets), <<Head(brackets).num>> \o open)
    ELSE /\ Head(brackets).close
         /\ open # <<>>
         /\ Head(open) = Head(brackets).num
         /\ Nested(Tail(brackets), Tail(open))

\* the context-tagged fields of a region, as <<tag number, value>> pairs
RECURSIVE FieldsOf(_, _)
FieldsOf(r, buf) ==
    IF Reader_eof(r) THEN <<>>
    ELSE Then(Tag_decode(r, buf), LAMBDA t :
         IF t.st # "ok" \/ TagKind(t) # "ctx" \/ t.rd.index + U32AsUsize(t.value) > t.rd.end
         THEN <<"malformed">>
         ELSE Then(Reader_read_slice(t.rd, U32AsUsize(t.value), buf), LAMBDA x :
              <<<<t.num, U32OfBytes(x.val)>>>> \o FieldsOf(x.rd, buf)))

\* what the property list of a request has to hold
RECURSIVE PropertyFields(_, _)
PropertyFields(property_ids, array_index) ==
    IF property_ids = <<>> THEN <<>>
    ELSE <<<<0, Head(property_ids)>>>>
            \o (IF array_index # BACNET_ARRAY_ALL THEN <<<<1, array_index>>>> ELSE <<>>)
            \o PropertyFields(Tail(property_ids), array_index)

SelectorTag(request_type) ==
    IF request_type.kind = "ByPosition" THEN 3
    ELSE IF request_type.kind = "BySequence" THEN 6
    ELSE 7

\* C19: the opening and closing tags written by ReadPropertyMultiple::encode
\* and by ReadRange::encode are balanced and properly nested;
\* ReadPropertyMultiple writes exactly one pair numbered 1, around the
\* property ids in request order, each followed by an array-index tag only
\* when the index is not the entire-array sentinel; ReadRange writes exactly
\* one selector pair (3, 6 or 7), or no opening or closing tag for the all
\* selector.
C19_TagsBalanced ==
    pc = "enc_done" =>
        /\ outcome.st = "ok"
        /\ written = CallBytes(acc)
        /\ Nested(BracketsOf(acc), <<>>)
        /\ op.name = "ReadPropertyMultiple::encode" =>
            /\ BracketsOf(acc) = <<[open |-> TRUE, close |-> FALSE, num |-> 1],
                                   [open |-> FALSE, close |-> TRUE, num |-> 1]>>
            /\ written[6] = 30 /\ written[Len(written)] = 31
            /\ FieldsOf([index |-> 6, end |-> Len(written) - 1], written)
                    = PropertyFields(input.property_ids, input.array_index)
        /\ op.name = "ReadRange::encode" =>
            BracketsOf(acc) =
                IF input.request_type.kind = "All" THEN <<>>
                ELSE <<[open |-> TRUE, close |-> FALSE, num |-> SelectorTag(input.request_type)],
                       [open |-> FALSE, close |-> TRUE, num |-> SelectorTag(input.request_type)]>>

\* a request for two properties with an array index was encoded
C19_Witness ==
    /\ pc = "enc_done"
    /\ op.name = "ReadPropertyMultiple::encode"
    /\ Len(input.property_ids) = 2
    /\ input.array_index = W(300)
    /\ Len(BracketsOf(acc)) = 2
    /\ Len(FieldsOf([index |-> 6, end |-> Len(written) - 1], written)) = 4

----------------------------------------------------------------------------
(* Count scenario: a by-position ReadRange request arrives whose count     *)
(* field is an application-tagged unsigned, an application-tagged signed   *)
(* in its shortest or in its four-byte form, or a value under another tag. *)

ApplicationTagNumber_Real == 4

CountForms == {"unsigned", "signed", "signed4", "real", "context"}

\* the count field of value v in the given form; a signed form carries
\* `v as i32`, negative for v >= 2^31
CountField(v, form) ==
    IF form = "unsigned" THEN CallBytes(encode_application_unsigned(v))
    ELSE IF form = "signed" THEN CallBytes(encode_application_signed(v))
    ELSE IF form = "signed4"
    THEN Tag_encode_bytes(AppTag(ApplicationTagNumber_SignedInt, W(4))) \o U32ToBE(v)
    ELSE IF form = "real"
    THEN Tag_encode_bytes(AppTag(ApplicationTagNumber_Real, W(4))) \o U32ToBE(v)
    ELSE Tag_encode_bytes(CtxTag(ApplicationTagNumber_SignedInt, W(4))) \o U32ToBE(v)

CountInputs ==
    [object_id : ObjectIds, property_id : PropertyIds,
     array_index : {BACNET_ARRAY_ALL, W(0), W(300)},
     index : {W(1), W(65536)}, count : U32Samples, form : CountForms]

CountWire(in) ==
    CallBytes(encode_context_object_id(ReadRange_OBJECT_ID_TAG, in.object_id)
                \o encode_context_enumerated(ReadRange_PROPERTY_ID_TAG, in.property_id)
                \o (IF in.array_index # BACNET_ARRAY_ALL
                    THEN encode_context_unsigned(ReadRange_ARRAY_INDEX_TAG, in.array_index)
                    ELSE <<>>)
                \o encode_opening_tag(ReadRange_BY_POSITION_TAG)
                \o encode_application_unsigned(in.index))
        \o CountField(in.count, in.form)
        \o CallBytes(encode_closing_tag(ReadRange_BY_POSITION_TAG))

CountInit ==
    /\ pc = "count"
    /\ input \in CountInputs
    /\ wire = CountWire(input)
    /\ writer = NoWriter
    /\ written = <<>>
    /\ reader = Reader_new_with_len(Len(wire))
    /\ op = NoOp
    /\ touched = {}
    /\ acc = <<>>
    /\ outcome = NoOutcome

CountDecode ==
    /\ pc = "count"
    /\ Then(ReadRange_decode(reader, wire), LAMBDA d :
        /\ reader' = d.rd
        /\ outcome' = [st |-> d.st, error |-> d.error, val |-> d.val])
    /\ op' = Call("ReadRange::decode", <<>>, reader)
    /\ pc' = "count_decoded"
    /\ UNCHANGED <<input, wire, writer, written, touched, acc>>

CountNext == CountDecode

SpecCount == CountInit /\ [][CountNext]_vars

\* the count is negative when carried as an i32
CountNegative(v) == v.hi >= 32768

\* C20: ReadRange::decode accepts a count carried as an application-tagged
\* unsigned or as an application-tagged signed integer and returns the same
\* count for both; a signed count that is negative fails with InvalidValue,
\* a count under any other tag fails with a typed error, and neither
\* failure returns a request.
C20_CountEncodings ==
    pc = "count_decoded" =>
        /\ input.form = "unsigned" \/ (input.form \in {"signed", "signed4"}
                                          /\ ~CountNegative(input.count)) =>
            /\ outcome.st = "ok"
            /\ outcome.val.request_type = ByPosition(input.index, input.count)
            /\ outcome.val.array_index = input.array_index
        /\ input.form \in {"signed", "signed4"} /\ CountNegative(input.count) =>
            /\ outcome.st = "err"
            /\ outcome.error = "InvalidValue"
            /\ outcome.val = <<>>
        /\ input.form \in {"real", "context"} =>
            /\ outcome.st = "err"
            /\ outcome.error = "TagNotSupported"
            /\ outcome.val = <<>>

\* a signed count of -1 was refused
C20_Witness ==
    /\ pc = "count_decoded"
    /\ input.form = "signed"
    /\ input.count = U32_MAX
    /\ SubSeq(wire, Len(wire) - 2, Len(wire)) = <<49, 255, 63>>
    /\ outcome.st = "err"
    /\ outcome.error = "InvalidValue"

----------------------------------------------------------------------------
(* Properties of the link layer and of the ReadRange codec that the        *)
(* scenarios above already exercise                                         *)

\* C21: DataLink::decode never enlarges the region visible to the cursor:
\* the end after the call is at most the end on entry, and a frame whose
\* declared length is above the end on entry, though within the buffer,
\* is not decoded successfully.
C21_DecodeNeverEnlargesRegion ==
    op.name = "DataLink::decode" =>
        /\ reader.end <= op.before.end
        /\ FrameDecoded /\ DeclaredLength > op.before.end => outcome.st # "ok"

\* C22: a successful pull of the k-th item of a region decodes the status
\* flags with the length of the context tag 2 before them: the item's
\* status flags are returned as written and the cursor sits at the first
\* byte after the k-th item, whatever the length of the status flags.
C22_StatusFlagsOwnLength ==
    pc \in {"items_pull", "items_aborted"} /\ wire = written
        /\ op.name = "ReadRangeItems::next" /\ Len(acc) <= Len(input)
        /\ (\A k \in 1..Len(acc) : acc[k].st = "ok") =>
            /\ acc[Len(acc)].val.status_flags = input[Len(acc)].status_flags
            /\ reader.index = Len(CallBytes(ReadRangeItems_encode(SubSeq(input, 1, Len(acc)))))

\* C23: DataLink::encode on a writer that already holds k > 0 bytes leaves
\* those k bytes as they were, writes the frame after them, and patches
\* the frame's own bytes 2-3 (offsets k+2..k+3) with the frame's own byte
\* count.
C23_EncodeTouchesOwnFrameOnly ==
    pc = "link_encoded"
        /\ input.function \in {OriginalUnicastNpdu, OriginalBroadcastNpdu}
        /\ input.npdu.present
        /\ op.before.index > 0
        /\ Len(op.before.buf) >= op.before.index + 4 + Len(input.npdu.bytes) =>
            /\ outcome.st = "ok"
            /\ SubSeq(writer.buf, 1, op.before.index) = written
            /\ wire = <<129, input.function>> \o BE16(4 + Len(input.npdu.bytes))
                        \o input.npdu.bytes

\* C24: a by-position ReadRange request with any count c of the u32 range
\* is encoded to bytes that decode to the same count c; counts of 2^31 and
\* above are not refused as negative.
C24_CountFullRange ==
    pc = "range_decoded" /\ input.request_type.kind = "ByPosition" =>
        /\ outcome.st = "ok"
        /\ outcome.val.request_type.count = input.request_type.count

====
